---------------------------- MODULE Spec2Model ----------------------------
(***************************************************************************)
(* EPyGrAM field data model: D3Field / D3VirtualField (fields/D3Field.py). *)
(*                                                                         *)
(* A numpy array is a view on a buffer: [shape, base, idx], where base     *)
(* names a buffer of the heap and idx lists, in C order, the positions of  *)
(* the buffer the view shows.  Two arrays with the same base alias.        *)
(* An index argument of getvalue_ij is a sequence of integers: a scalar is *)
(* a sequence of length 1 (numpy.array(scalar).size == 1), None is <<>>.   *)
(***************************************************************************)
EXTENDS Integers, Sequences, FiniteSets, TLC

VARIABLES fields, heap, ret, vfield, edits, vector

vars == <<fields, heap, ret, vfield, edits, vector>>

---------------------------------------------------------------------------
(* Bounds of the model *)

\* longest validity list a field may reach by extend()
MaxT == 3
\* number of times the data of a field may be replaced in place (sp2gp, gp2sp,
\* extend, decumulate, global_shift_center) since setdata last gave it
MaxEdits == 1
\* number of buffers of the heap
NumBufs == 4
\* number of transforms (sp2gp, gp2sp) a virtual field may be asked
MaxOps == 2

FieldIds == {1, 2, 3}
BufIds == 1..NumBufs

---------------------------------------------------------------------------
(* numpy *)

RECURSIVE Prod(_)
Prod(s) == IF s = <<>> THEN 1 ELSE Head(s) * Prod(Tail(s))

NoData == [shape |-> <<>>, base |-> 0, idx |-> <<>>]

\* a new C-contiguous array of the given shape on buffer b
Contig(shape, b) == [shape |-> shape, base |-> b, idx |-> [n \in 1..Prod(shape) |-> n]]

\* the values of array a in C order
Flat(a, hp) == [n \in 1..Len(a.idx) |-> hp[a.base][a.idx[n]]]

\* position (1-based, C order) of a[t, k, j, i] in a 4D array of this shape
Off4(shape, t, k, j, i) == ((t * shape[2] + k) * shape[3] + j) * shape[4] + i + 1

\* the index along axis ax (1..4) of the n-th cell (1-based, C order)
Unravel(shape, n, ax) ==
    LET after == Prod(SubSeq(shape, ax + 1, Len(shape)))
    IN  ((n - 1) \div after) % shape[ax]

\* a[t0:t1, k0:k1, j0:j1, i0:i1] of a 4D array: basic slicing returns a view
Slice4(a, lo, hi) ==
    LET shp == [ax \in 1..4 |-> hi[ax] - lo[ax]]
    IN  [shape |-> shp, base |-> a.base,
         idx |-> [n \in 1..Prod(shp) |->
                    a.idx[Off4(a.shape, lo[1] + Unravel(shp, n, 1), lo[2] + Unravel(shp, n, 2),
                                        lo[3] + Unravel(shp, n, 3), lo[4] + Unravel(shp, n, 4))]]]

\* buffer hp[a.base] after  a[...] = vals  (vals in C order)
Store(a, vals, hp) ==
    [hp EXCEPT ![a.base] =
        [p \in 1..Len(hp[a.base]) |->
            IF \E n \in 1..Len(a.idx) : a.idx[n] = p
            THEN vals[CHOOSE n \in 1..Len(a.idx) : a.idx[n] = p]
            ELSE hp[a.base][p]]]

---------------------------------------------------------------------------
(* Geometry, validity, spectral geometry (collaborators) *)

\* which of the axes k, j, i the structure of a geometry holds
datashape(geometry) ==
    [k |-> geometry.structure \in {"3D", "V2D", "V1D"},
     j |-> geometry.structure \in {"3D", "H2D"},
     i |-> geometry.structure \in {"3D", "H2D", "V2D", "H1D"}]

\* a geometry with the grid, the position on the grid, the geoid and the
\* vertical coordinate that a reader gives by default; the projection of a
\* geometry that is neither projected nor academic is None; input_lon and
\* input_lat are grid['input_lon'] and grid['input_lat'], the place of the
\* gridpoint (0, 0), in tenths of a degree
Geom(structure, name, levels, Y, X) ==
    [structure |-> structure, name |-> name,
     grid |-> "grid0", input_lon |-> 0, input_lat |-> 0,
     position_on_horizontal_grid |-> "center",
     projection |-> IF name \in {"lambert", "academic"} THEN "proj0" ELSE "None",
     geoid |-> "default_geoid",
     vcoordinate |-> [levels |-> levels, typeoffirstfixedsurface |-> 100,
                      position_on_grid |-> "mass", grid |-> "None"],
     dimensions |-> IF name = "reduced_gauss"
                    THEN [lat_number |-> Y, max_lon_number |-> X]
                    ELSE [X |-> X, Y |-> Y]]

\* geometry.projected_geometry
projected_geometry(geometry) == geometry.name = "lambert"

\* the sizes of the two horizontal axes of the data: 'gauss' in geometry.name
\* selects lat_number / max_lon_number, any other name Y / X
dimY(geometry) ==
    IF geometry.name = "reduced_gauss" THEN geometry.dimensions.lat_number
    ELSE geometry.dimensions.Y

dimX(geometry) ==
    IF geometry.name = "reduced_gauss" THEN geometry.dimensions.max_lon_number
    ELSE geometry.dimensions.X

Geometries ==
    { Geom("3D", "regular_lonlat", <<10, 20>>, 2, 2),
      Geom("3D", "regular_lonlat", <<10>>, 1, 2),
      Geom("H2D", "regular_lonlat", <<10>>, 2, 2),
      Geom("H2D", "reduced_gauss", <<10>>, 2, 2),
      Geom("V1D", "regular_lonlat", <<10, 20>>, 1, 1),
      Geom("Point", "regular_lonlat", <<10>>, 1, 1) }

Validities == { <<0>>, <<0, 6>> }

SpectralGeometries == {"sg1", "sg2"}

\* number of spectral coefficients of a truncation
NCoef(sg) == IF sg = "sg1" THEN 2 ELSE 3

\* the opaque transforms of SpectralGeometry: sp2gp gives one value per gridpoint,
\* gp2sp one value per coefficient
sg_sp2gp(spdata_i, gpdims) ==
    [n \in 1..(gpdims.Y * gpdims.X) |-> spdata_i[1 + ((n - 1) % Len(spdata_i))]]

sg_gp2sp(sg, gpdata_i) ==
    [m \in 1..NCoef(sg) |-> gpdata_i[1 + ((m - 1) % Len(gpdata_i))]]

---------------------------------------------------------------------------
(* Field *)

\* fid['generic'] of a field: whether the fid has the key 'generic', and the
\* 'level' of that dict, <<>> when it has none
NoGeneric == [present |-> FALSE, level |-> <<>>]

NoField == [fid |-> "", structure |-> "", geometry |-> Geom("", "", <<>>, 0, 0),
            validity |-> <<>>, spectral_geometry |-> "None", processtype |-> "",
            data |-> NoData, generic |-> NoGeneric]

\* fpx.field(fid=, structure=, geometry=, validity=, spectral_geometry=)
Field(fid, geometry, validity, sg) ==
    [fid |-> fid, structure |-> geometry.structure, geometry |-> geometry,
     validity |-> validity, spectral_geometry |-> sg, processtype |-> "forecast",
     data |-> NoData, generic |-> NoGeneric]

\* mutant: the test of H2DVectorField.spectral, without the placeholder
spectral_isnotnone(self) == self.spectral_geometry # "None"

spectral(self) ==
    self.spectral_geometry # "None" /\ self.spectral_geometry # "__unknown__"

\* geometry.get_datashape(dimT, d4=True)
get_datashape(geometry, dimT) ==
    <<dimT, Len(geometry.vcoordinate.levels), dimY(geometry), dimX(geometry)>>

getdata(self) == self.data

\* mutant: the base class keeps the array flattened
Field_setdata_flat(self, data) == [self EXCEPT !.data = [data EXCEPT !.shape = <<Prod(data.shape)>>]]

\* Field.setdata of the base class: keeps the array it is given
Field_setdata(self, data) == [self EXCEPT !.data = data]

\* the shape setdata expects of 4D data (3D if spectral)
setdata_shp(self, data) ==
    IF spectral(self)
    THEN <<Len(self.validity), Len(self.geometry.vcoordinate.levels),
           data.shape[Len(data.shape)]>>
    ELSE <<Len(self.validity), Len(self.geometry.vcoordinate.levels),
           dimY(self.geometry), dimX(self.geometry)>>

\* the number of axes setdata expects of squeezed data
setdata_dimensions(self) ==
    LET ds == datashape(self.geometry)
        n(b) == IF b THEN 1 ELSE 0
    IN  n(Len(self.validity) > 1) + n(ds.k)
        + (IF spectral(self) THEN 1 ELSE n(ds.j) + n(ds.i))

\* indexes[axis] of setdata: the place of the axis in squeezed data, -1 for None
setdata_indexes(self) ==
    LET ds == datashape(self.geometry)
        dt == IF Len(self.validity) > 1 THEN 0 ELSE 1
        dz == dt + (IF ds.k THEN 0 ELSE 1)
        dy == dz + (IF ds.j THEN 0 ELSE 1)
    IN  [t |-> IF Len(self.validity) > 1 THEN 0 ELSE -1,
         z |-> IF ds.k THEN 1 - dt ELSE -1,
         y |-> IF spectral(self) THEN 2 - dz ELSE IF ds.j THEN 2 - dz ELSE -1,
         x |-> IF spectral(self) THEN 3 - dz ELSE IF ds.i THEN 3 - dy ELSE -1]

\* the checks of setdata on squeezed data: TRUE when none of them raises
setdata_squeezed_ok(self, data) ==
    LET ds == datashape(self.geometry)
        ix == setdata_indexes(self)
        rank == Len(data.shape)
        \* data.shape[n] == size; an index out of the tuple raises IndexError
        axis(n, size) == n < rank /\ data.shape[n + 1] = size
    IN  /\ (rank = setdata_dimensions(self) \/ data.shape = <<1>>)
        /\ (ix.t # -1 => axis(0, Len(self.validity)))
        /\ (ds.k => axis(ix.z, Len(self.geometry.vcoordinate.levels)))
        /\ (~spectral(self) =>
               /\ (ds.j => axis(ix.y, dimY(self.geometry)))
               /\ (ds.i => axis(ix.x, dimX(self.geometry))))

\* mutant: the squeezed data is kept as given
setdata_noreshape(data, shp) == data

\* data.reshape(shp): a view on the same buffer
setdata_reshape(data, shp) == [data EXCEPT !.shape = shp]

\* mutant: the data is stored before it is checked
setdata_store_first(self, data) ==
    LET shp == IF spectral(self) /\ data.shape = <<>> THEN <<>> ELSE setdata_shp(self, data)
        d4 == Len(data.shape) = (IF spectral(self) THEN 3 ELSE 4)
        ok == /\ shp # <<>>
              /\ IF d4 THEN data.shape = shp
                 ELSE setdata_squeezed_ok(self, data) /\ Prod(data.shape) = Prod(shp)
    IN  [raised |-> ~ok,
         self |-> Field_setdata(self, IF ok /\ ~d4 THEN setdata_reshape(data, shp) ELSE data)]

\* D3Field.setdata: [raised, self]; when it raises, self is as before
setdata(self, data) ==
    IF spectral(self) /\ data.shape = <<>>
    THEN [raised |-> TRUE, self |-> self]
    ELSE
    LET shp == setdata_shp(self, data)
        d4 == Len(data.shape) = (IF spectral(self) THEN 3 ELSE 4)
    IN  IF d4
        THEN IF data.shape = shp
             THEN [raised |-> FALSE, self |-> Field_setdata(self, data)]
             ELSE [raised |-> TRUE, self |-> self]
        ELSE IF setdata_squeezed_ok(self, data) /\ Prod(data.shape) = Prod(shp)
             THEN [raised |-> FALSE, self |-> Field_setdata(self, setdata_reshape(data, shp))]
             ELSE [raised |-> TRUE, self |-> self]


---------------------------------------------------------------------------
(* Heap and the record of the last call *)

\* the arrays in use: the data of the fields and of the fields last returned
Referenced(flds, out, b) ==
    \/ \E id \in FieldIds : flds[id].data.base = b
    \/ \E n \in 1..Len(out) : out[n].data.base = b

\* a buffer no array shows
FreeBuf(flds, out) ==
    CHOOSE b \in BufIds : /\ ~Referenced(flds, out, b)
                          /\ \A c \in 1..(b - 1) : Referenced(flds, out, c)

\* the heap once the buffers no array shows are freed
Collect(flds, out, hp) ==
    [b \in BufIds |-> IF Referenced(flds, out, b) THEN hp[b] ELSE <<>>]

\* the values of an array made by a caller: cell n holds seed + n
Content(shape, seed) == [n \in 1..Prod(shape) |-> seed + n]

\* what the last call did: its name, whether it raised, the values and the
\* fields it returned, its arguments, and the calls of resource.readfield it
\* made, each one [fid, getdata]; error names the exception when the model
\* tells the exceptions apart, calls counts the calls the method made to itself
RetIO(op, raised, value, out, args, reads) ==
    [op |-> op, raised |-> raised, value |-> value, out |-> out, args |-> args,
     reads |-> reads, error |-> "", calls |-> 0]

\* the record of a call that reads no resource
Ret(op, raised, value, out, args) == RetIO(op, raised, value, out, args, <<>>)

\* the record of a call whose exception is named: error is "" when it returns
RetErr(op, error, calls, value, args) ==
    [RetIO(op, error # "", value, <<>>, args, <<>>) EXCEPT !.error = error, !.calls = calls]


\* the count of the in-place replacements of the data
Edit(changed) ==
    /\ changed => edits < MaxEdits
    /\ edits' = IF changed THEN edits + 1 ELSE edits

\* the shape of the data a resource reader sets on a field
ReaderShape(self) ==
    IF spectral(self)
    THEN <<Len(self.validity), Len(self.geometry.vcoordinate.levels), NCoef(self.spectral_geometry)>>
    ELSE get_datashape(self.geometry, Len(self.validity))

\* a field as a resource gives it: built, then setdata(data) with the data read
ReadField(fid, geometry, validity, sg, b) ==
    LET new == Field(fid, geometry, validity, sg)
    IN  setdata(new, Contig(ReaderShape(new), b)).self

---------------------------------------------------------------------------
(* D3Field: operations that replace the data in place *)

\* the 1D slice data[t, k, :] (or the flattened data[t, k, :, :]) number tk of
\* values given in C order, each slice holding n values
SliceTK(flat, tk, n) == SubSeq(flat, tk * n + 1, (tk + 1) * n)

\* _get_gpdims_for_spectral_transforms
gpdims(self) == [Y |-> dimY(self.geometry), X |-> dimX(self.geometry)]

\* the values of gpdata built by the loop of sp2gp, in C order
sp2gp_gpdata(self, hp) ==
    LET sp == Flat(getdata(self), hp)
        n == self.data.shape[3]
        g == dimY(self.geometry) * dimX(self.geometry)
        shp == get_datashape(self.geometry, Len(self.validity))
    IN  [c \in 1..Prod(shp) |->
            sg_sp2gp(SliceTK(sp, (c - 1) \div g, n), gpdims(self))[1 + ((c - 1) % g)]]

\* the values of spdata built by the loop of gp2sp, in C order
gp2sp_spdata(self, spectral_geometry, hp) ==
    LET gp == Flat(getdata(self), hp)
        g == dimY(self.geometry) * dimX(self.geometry)
        n == NCoef(spectral_geometry)
    IN  [c \in 1..(Len(self.validity) * Len(self.geometry.vcoordinate.levels) * n) |->
            sg_gp2sp(spectral_geometry, SliceTK(gp, (c - 1) \div n, g))[1 + ((c - 1) % n)]]

\* mutant: spectral_geometry is cleared before the loop of the transforms
sp2gp_switch_first(self, gpdata, fail) ==
    IF ~spectral(self) THEN [raised |-> FALSE, self |-> self]
    ELSE IF fail THEN [raised |-> TRUE, self |-> [self EXCEPT !.spectral_geometry = "None"]]
    ELSE setdata([self EXCEPT !.spectral_geometry = "None"], gpdata)

\* sp2gp, once gpdata is computed; fail tells whether the transform or the
\* reshape of some slice raised: [raised, self]
sp2gp(self, gpdata, fail) ==
    IF ~spectral(self) THEN [raised |-> FALSE, self |-> self]
    ELSE IF fail THEN [raised |-> TRUE, self |-> self]
    ELSE setdata([self EXCEPT !.spectral_geometry = "None"], gpdata)

\* mutant: a spectral field is refused
gp2sp_strict(self, spectral_geometry, spdata, fail) ==
    IF spectral(self) \/ fail THEN [raised |-> TRUE, self |-> self]
    ELSE setdata([self EXCEPT !.spectral_geometry = spectral_geometry], spdata)

\* gp2sp, once spdata is computed: [raised, self]
gp2sp(self, spectral_geometry, spdata, fail) ==
    IF spectral(self) THEN [raised |-> FALSE, self |-> self]
    ELSE IF fail THEN [raised |-> TRUE, self |-> self]
    ELSE setdata([self EXCEPT !.spectral_geometry = spectral_geometry], spdata)

\* flds[f].sp2gp() on the heap hp: [raised, fields, heap]
sp2gp_at(f, flds, hp, fail) ==
    LET self == flds[f]
        b == FreeBuf(flds, <<>>)
        r == sp2gp(self, Contig(get_datashape(self.geometry, Len(self.validity)), b), fail)
        after == [flds EXCEPT ![f] = r.self]
    IN  [raised |-> r.raised, fields |-> after,
         heap |-> Collect(after, <<>>, IF spectral(self) /\ ~fail
                                       THEN [hp EXCEPT ![b] = sp2gp_gpdata(self, hp)] ELSE hp)]

\* flds[f].gp2sp(spectral_geometry) on the heap hp: [raised, fields, heap]
gp2sp_at(f, spectral_geometry, flds, hp, fail) ==
    LET self == flds[f]
        b == FreeBuf(flds, <<>>)
        shp == <<Len(self.validity), Len(self.geometry.vcoordinate.levels), NCoef(spectral_geometry)>>
        r == gp2sp(self, spectral_geometry, Contig(shp, b), fail)
        after == [flds EXCEPT ![f] = r.self]
    IN  [raised |-> r.raised, fields |-> after,
         heap |-> Collect(after, <<>>, IF ~spectral(self) /\ ~fail
                                       THEN [hp EXCEPT ![b] = gp2sp_spdata(self, spectral_geometry, hp)]
                                       ELSE hp)]

Sp2gp(f, fail) ==
    LET r == sp2gp_at(f, fields, heap, fail)
    IN  /\ fields[f] # NoField
        /\ fields' = r.fields
        /\ heap' = r.heap
        /\ ret' = Ret("sp2gp", r.raised, <<>>, <<>>, <<>>)
        /\ Edit(spectral(fields[f]) /\ ~fail)
        /\ UNCHANGED <<vfield, vector>>

Gp2sp(f, spectral_geometry, fail) ==
    LET r == gp2sp_at(f, spectral_geometry, fields, heap, fail)
    IN  /\ fields[f] # NoField
        /\ fields' = r.fields
        /\ heap' = r.heap
        /\ ret' = Ret("gp2sp", r.raised, <<>>, <<>>, <<>>)
        /\ Edit(~spectral(fields[f]) /\ ~fail)
        /\ UNCHANGED <<vfield, vector>>

\* the opaque SpectralGeometry.compute_xy_spderivatives: (dx, dy) of one slice
sg_compute_xy_spderivatives(spdata_i, dims) ==
    LET gp == sg_sp2gp(spdata_i, dims)
    IN  <<[n \in 1..Len(gp) |-> gp[n] - gp[1]], [n \in 1..Len(gp) |-> gp[Len(gp)] - gp[n]]>>

\* the values of gpderivX (xy = 1) and gpderivY (xy = 2), in C order
spderivatives_data(self, xy, hp) ==
    LET sp == Flat(getdata(self), hp)
        n == self.data.shape[3]
        g == dimY(self.geometry) * dimX(self.geometry)
        shp == get_datashape(self.geometry, Len(self.validity))
    IN  [c \in 1..Prod(shp) |->
            sg_compute_xy_spderivatives(SliceTK(sp, (c - 1) \div g, n), gpdims(self))[xy][1 + ((c - 1) % g)]]

\* one of the two fields compute_xy_spderivatives returns: a deepcopy of self,
\* made gridpoint, with the fid of the loop and the derivative as data
spderivative_field(self, gpderiv) ==
    setdata([self EXCEPT !.spectral_geometry = "None", !.fid = "derivative:x"], gpderiv).self

ComputeXYSpderivatives(f) ==
    LET self == fields[f]
        shp == get_datashape(self.geometry, Len(self.validity))
        bX == FreeBuf(fields, <<>>)
        field_dX == spderivative_field(self, Contig(shp, bX))
        bY == FreeBuf(fields, <<field_dX>>)
        field_dY == spderivative_field(self, Contig(shp, bY))
        out == IF spectral(self) THEN <<field_dX, field_dY>> ELSE <<>>
        hp == IF spectral(self)
              THEN [heap EXCEPT ![bX] = spderivatives_data(self, 1, heap),
                                ![bY] = spderivatives_data(self, 2, heap)]
              ELSE heap
    IN  /\ self # NoField
        /\ ret' = Ret("compute_xy_spderivatives", ~spectral(self), <<>>, out, <<>>)
        /\ heap' = Collect(fields, out, hp)
        /\ UNCHANGED <<fields, vfield, vector, edits>>

\* the shapes of the arrays a caller gives to setdata
InputShapes ==
    { <<>>, <<1>>, <<2>>, <<3>>, <<2, 2>>, <<2, 3>>, <<1, 1, 2>>, <<2, 2, 2>>,
      <<1, 1, 1, 1>>, <<1, 1, 2, 2>>, <<2, 1, 2, 2>>, <<1, 2, 2, 2>>, <<2, 2, 2, 2>>,
      <<1, 2, 1, 1>>, <<2, 1, 1, 1>>, <<1, 1, 1, 2, 2>> }

SetData(f, shape) ==
    LET self == fields[f]
        b == FreeBuf(fields, <<>>)
        r == setdata(self, Contig(shape, b))
    IN  /\ self # NoField
        /\ fields' = [fields EXCEPT ![f] = r.self]
        /\ heap' = Collect(fields', <<>>, [heap EXCEPT ![b] = Content(shape, 0)])
        /\ ret' = Ret("setdata", r.raised, <<>>, <<>>, <<shape>>)
        /\ edits' = IF r.raised THEN edits ELSE 0
        /\ UNCHANGED <<vfield, vector>>

\* f.setdata(f.getdata(d4=True)): the field is given the array it holds
SetGetData(f) ==
    LET self == fields[f]
    IN  /\ self # NoField
        /\ self.data # NoData
        /\ \E r \in {setdata(self, getdata(self))} :
              /\ fields' = [fields EXCEPT ![f] = r.self]
              /\ ret' = Ret("setdata(getdata)", r.raised, <<>>, <<>>, <<>>)
        /\ UNCHANGED <<heap, vfield, vector, edits>>

\* numpy.concatenate([d1, d2], axis=0) raises unless the shapes agree after axis 0
concatenate_ok(s1, s2) == Len(s1) = Len(s2) /\ Len(s1) > 0 /\ Tail(s1) = Tail(s2)

\* extend: [raised, self]; d is the concatenated array
extend(self, another, d) ==
    IF ~concatenate_ok(self.data.shape, another.data.shape)
    THEN [raised |-> TRUE, self |-> self]
    ELSE setdata([self EXCEPT !.validity = self.validity \o another.validity], d)

\* another is a field of the caller, read with data of its own
Extend(f, geometry, validity, sg) ==
    LET self == fields[f]
        another == ReadField("another", geometry, validity, sg, 0)
        b == FreeBuf(fields, <<>>)
        shp == <<self.data.shape[1] + another.data.shape[1]>> \o Tail(self.data.shape)
        r == extend(self, another, Contig(shp, b))
        d == Flat(getdata(self), heap) \o Content(another.data.shape, 100)
    IN  /\ self # NoField
        /\ Len(self.validity) + Len(validity) <= MaxT
        /\ fields' = [fields EXCEPT ![f] = r.self]
        /\ heap' = Collect(fields', <<>>, [heap EXCEPT ![b] = d])
        /\ ret' = Ret("extend", r.raised, <<>>, <<>>, <<>>)
        /\ Edit(~r.raised)
        /\ UNCHANGED <<vfield, vector>>

\* mutant: the differences are taken slice after slice in the array itself
decumulate_data_running(old, n, T, center) ==
    LET new[c \in 1..Len(old)] == IF c <= n THEN old[c] ELSE old[c] - new[c - n]
    IN  [c \in 1..Len(old) |-> new[c]]

\* the values of the data after decumulate, in C order; n values per validity
decumulate_data(old, n, T, center) ==
    LET diff == [c \in 1..Len(old) |-> IF c <= n THEN old[c] ELSE old[c] - old[c - n]]
        first == [c \in 1..Len(old) |-> IF c <= n THEN diff[c + n] ELSE diff[c]]
    IN  IF ~center THEN diff
        ELSE IF T <= 2 THEN first
        ELSE [c \in 1..Len(old) |->
                IF c > n /\ c <= Len(old) - n THEN (first[c] + first[c + n]) \div 2
                ELSE first[c]]

\* TRUE when the means of decumulate(center=True) are integers
Halvable(old, n, T, center) ==
    LET diff == decumulate_data(old, n, T, FALSE)
    IN  (center /\ T > 2) =>
            \A c \in (n + 1)..(Len(old) - n) : (diff[c] + diff[c + n]) % 2 = 0


Decumulate(f, center) ==
    LET self == fields[f]
        T == Len(self.validity)
        old == Flat(getdata(self), heap)
        new == decumulate_data(old, Len(old) \div T, T, center)
        r == setdata(self, getdata(self))
    IN  /\ self # NoField
        /\ T > 1 => Halvable(old, Len(old) \div T, T, center)
        /\ Edit(T > 1)
        /\ fields' = [fields EXCEPT ![f] = IF T > 1 THEN r.self ELSE self]
        /\ heap' = IF T > 1 THEN Store(getdata(self), new, heap) ELSE heap
        /\ ret' = Ret("decumulate", T > 1 /\ r.raised, <<>>, <<>>,
                    << <<IF center THEN 1 ELSE 0>> >>)
        /\ UNCHANGED <<vfield, vector>>

\* numpy.concatenate((data[:, :, :, n:], data[:, :, :, 0:n]), axis=3): the column
\* of the old data that column i of the new data holds, for data of X columns
shift_column(i, n, X) == IF n > X \/ n < -X THEN i ELSE (i + n) % X

\* n is int(longitude_shift / X_resolution)
GlobalShiftCenter(f, n) ==
    LET self == fields[f]
        shp == self.data.shape
        old == Flat(getdata(self), heap)
        new == [c \in 1..Len(old) |->
                   old[Off4(shp, Unravel(shp, c, 1), Unravel(shp, c, 2), Unravel(shp, c, 3),
                            shift_column(Unravel(shp, c, 4), n, shp[4]))]]
        ok == self.geometry.name = "regular_lonlat" /\ Len(shp) = 4
        r == setdata(self, getdata(self))
    IN  /\ self # NoField
        /\ fields' = [fields EXCEPT ![f] = IF ok THEN r.self ELSE self]
        /\ heap' = IF ok THEN Store(getdata(self), new, heap) ELSE heap
        /\ ret' = Ret("global_shift_center", ~ok \/ r.raised, <<>>, <<>>, <<>>)
        /\ Edit(ok)
        /\ UNCHANGED <<vfield, vector>>

---------------------------------------------------------------------------
(* getvalue_ij: the part that D3Field and D3VirtualField share *)

\* an index argument is a sequence of indexes: <<>> when omitted (None), of
\* length 1 for a scalar
IndexArgs == { <<>>, <<1>>, <<0, 1>>, <<1, 0, 1>> }

\* TRUE when one of the four tests on omitted arguments raises
getvalue_ij_mandatory(geometry, validity, i, j, k, t) ==
    \/ Len(validity) > 1 /\ t = <<>>
    \/ datashape(geometry).k /\ k = <<>>
    \/ datashape(geometry).j /\ j = <<>>
    \/ datashape(geometry).i /\ j = <<>>

\* geometry.point_is_inside_domain_ij(i, j): the answers it may give; what it does
\* of an index omitted on an axis of the grid is not known, and it may refuse
point_is_inside_domain_ij(geometry, i, j) ==
    IF (datashape(geometry).i /\ i = <<>>) \/ (datashape(geometry).j /\ j = <<>>)
    THEN BOOLEAN
    ELSE { /\ \A n \in 1..Len(i) : i[n] \in 0..(dimX(geometry) - 1)
           /\ \A n \in 1..Len(j) : j[n] \in 0..(dimY(geometry) - 1) }

\* the largest size of the arguments given; 0 when none is (max() then raises)
getvalue_ij_maxsize(i, j, k, t) ==
    CHOOSE m \in {Len(i), Len(j), Len(k), Len(t)} :
        \A n \in {Len(i), Len(j), Len(k), Len(t)} : n <= m

\* mutant: an argument of size 1 is repeated, whichever it is
getvalue_ij_my_any(dim, maxsize, scalar) ==
    IF dim = <<>> THEN [n \in 1..maxsize |-> 0]
    ELSE IF Len(dim) = maxsize THEN dim
    ELSE IF Len(dim) = 1 THEN [n \in 1..maxsize |-> dim[1]]
    ELSE <<>>

\* my_t, my_k (scalar: a size of 1 is repeated maxsize times) and my_j, my_i (not
\* scalar) for maxsize > 0; <<>> when the argument makes the call raise
getvalue_ij_my(dim, maxsize, scalar) ==
    IF dim = <<>> THEN [n \in 1..maxsize |-> 0]
    ELSE IF Len(dim) = maxsize THEN dim
    ELSE IF scalar /\ Len(dim) = 1 THEN [n \in 1..maxsize |-> dim[1]]
    ELSE <<>>

\* mutant: the indexes are taken in the order t, k, i, j
getvalue_ij_pos_ij(my, x) == <<my.t[x], my.k[x], my.i[x], my.j[x]>>

\* the x-th point asked: (my_t[x], my_k[x], my_j[x], my_i[x])
getvalue_ij_pos(my, x) == <<my.t[x], my.k[x], my.j[x], my.i[x]>>

\* the checks and the indexes of getvalue_ij, up to the reading of the data:
\* [raised, maxsize, my]
getvalue_ij_indexes(geometry, validity, i, j, k, t, inside) ==
    LET maxsize == getvalue_ij_maxsize(i, j, k, t)
        my == [t |-> getvalue_ij_my(t, maxsize, TRUE), k |-> getvalue_ij_my(k, maxsize, TRUE),
               j |-> getvalue_ij_my(j, maxsize, FALSE), i |-> getvalue_ij_my(i, maxsize, FALSE)]
    IN  [raised |-> \/ getvalue_ij_mandatory(geometry, validity, i, j, k, t)
                    \/ ~inside
                    \/ maxsize = 0
                    \/ <<>> \in {my.t, my.k, my.j, my.i},
         maxsize |-> maxsize, my |-> my]

\* data[pos] of a 4D array given by shape and values: [raised, value]; too many
\* indexes for the array, or an index out of an axis, raise IndexError
Item4(shape, flat, pos) ==
    IF Len(shape) = 4 /\ \A ax \in 1..4 : pos[ax] \in 0..(shape[ax] - 1)
    THEN [raised |-> FALSE, value |-> flat[Off4(shape, pos[1], pos[2], pos[3], pos[4])]]
    ELSE [raised |-> TRUE, value |-> 0]

\* D3Field.getvalue_ij: [raised, value]; data is getdata(d4=True), as [shape, flat]
getvalue_ij(self, data, i, j, k, t, inside) ==
    LET ix == getvalue_ij_indexes(self.geometry, self.validity, i, j, k, t, inside)
        item(x) == Item4(data.shape, data.flat, getvalue_ij_pos(ix.my, x))
    IN  IF ix.raised \/ \E x \in 1..ix.maxsize : item(x).raised
        THEN [raised |-> TRUE, value |-> <<>>]
        ELSE [raised |-> FALSE, value |-> [x \in 1..ix.maxsize |-> item(x).value]]

\* t and k are given as scalars or as arrays of two, i and j of three as well
GetValueIJ(f) ==
    /\ fields[f] # NoField
    /\ \E flat \in {Flat(getdata(fields[f]), heap)} :
       \E i \in IndexArgs, j \in IndexArgs, k \in IndexArgs \ {<<1, 0, 1>>},
          t \in IndexArgs \ {<<1, 0, 1>>} :
       \E inside \in point_is_inside_domain_ij(fields[f].geometry, i, j) :
          LET r == getvalue_ij(fields[f], [shape |-> getdata(fields[f]).shape, flat |-> flat],
                               i, j, k, t, inside)
          IN  ret' = Ret("getvalue_ij", r.raised, r.value, <<>>, <<i, j, k, t>>)
    /\ UNCHANGED <<fields, heap, vfield, vector, edits>>

---------------------------------------------------------------------------
(* D3VirtualField *)

\* no H2DVectorField is built yet
NoVector == [structure |-> "", validity |-> <<>>, processtype |-> "", components |-> <<>>]

NoVF == [mode |-> "", structure |-> "", geometry |-> Geom("", "", <<>>, 0, 0),
         validity |-> <<>>, spectral_geometry |-> "None",
         fidList |-> <<>>, spgpOpList |-> <<>>]

\* the fields of the fieldset, or those stored in the resource
Constituents(flds) == {id \in FieldIds : flds[id] # NoField}

\* the structure of a virtual field made of fields of this structure
newstructure(structure) ==
    CASE structure \in {"3D", "H2D"} -> "3D"
      [] structure \in {"V1D", "point"} -> "V1D"
      [] structure \in {"V2D", "H1D"} -> "V2D"

\* the tests of __init__ on the field that the generator gives after the
\* first one: TRUE when none of them raises
vinit_shares(first, field) ==
    LET mine == first.geometry
        its == field.geometry
    IN  /\ first.structure = field.structure
        /\ mine.structure = its.structure /\ mine.name = its.name /\ mine.grid = its.grid
        /\ mine.dimensions = its.dimensions
        /\ mine.position_on_horizontal_grid = its.position_on_horizontal_grid
        /\ (projected_geometry(mine) \/ projected_geometry(its)
            \/ mine.name = "academic" \/ its.name = "academic")
               => mine.projection = its.projection
        /\ (projected_geometry(mine) \/ projected_geometry(its))
               => (mine.projection = its.projection /\ mine.geoid = its.geoid)
        /\ mine.vcoordinate.typeoffirstfixedsurface = its.vcoordinate.typeoffirstfixedsurface
        /\ mine.vcoordinate.position_on_grid = its.vcoordinate.position_on_grid
        /\ (mine.vcoordinate.grid # "None" \/ its.vcoordinate.grid # "None")
               => mine.vcoordinate.grid = its.vcoordinate.grid
        /\ first.validity = field.validity
        /\ first.spectral_geometry = field.spectral_geometry
        /\ first.processtype = field.processtype

\* mutant: a level that was already found is not refused
vinit_field_ok_anylevel(flds, n) ==
    LET levels(m) == flds[m].geometry.vcoordinate.levels
    IN  /\ flds[n].structure \in {"point", "V1D", "V2D", "H1D", "H2D", "3D"}
        /\ n > 1 => vinit_shares(flds[1], flds[n])
        /\ Len(levels(n)) = 1
        /\ \A m \in 1..(n - 1) : flds[m].fid # flds[n].fid

\* the tests of __init__ on the n-th field of the generator
vinit_field_ok(flds, n) ==
    LET levels(m) == flds[m].geometry.vcoordinate.levels
    IN  /\ flds[n].structure \in {"point", "V1D", "V2D", "H1D", "H2D", "3D"}
        /\ n > 1 => vinit_shares(flds[1], flds[n])
        /\ Len(levels(n)) = 1
        /\ \A m \in 1..(n - 1) : levels(m)[1] # levels(n)[1]
        /\ \A m \in 1..(n - 1) : flds[m].fid # flds[n].fid

\* the number of fields that the loop of __init__ takes from the generator:
\* all of them, or those up to the first one that a test refuses
vinit_taken(flds) ==
    IF \A n \in 1..Len(flds) : vinit_field_ok(flds, n) THEN Len(flds)
    ELSE CHOOSE n \in 1..Len(flds) :
            ~vinit_field_ok(flds, n) /\ \A m \in 1..(n - 1) : vinit_field_ok(flds, m)

\* __init__ raises: no field, a field refused, or a structure that is not 3D
vinit_raises(flds) ==
    \/ flds = <<>>
    \/ \E n \in 1..Len(flds) : ~vinit_field_ok(flds, n)
    \/ newstructure(flds[Len(flds)].structure) # "3D"

\* mutant: the levels and the fids are left in the order of the generator
sorted_asgiven(pairs) == pairs

\* sorted(zip(levelList, self._fidList)): the pairs (level, fid) by increasing
\* level; no two pairs share a level
RECURSIVE sorted(_)
sorted(pairs) ==
    IF pairs = <<>> THEN <<>>
    ELSE LET least == CHOOSE n \in 1..Len(pairs) :
                         \A m \in 1..Len(pairs) : pairs[n][1] <= pairs[m][1]
         IN  <<pairs[least]>>
             \o sorted(SubSeq(pairs, 1, least - 1) \o SubSeq(pairs, least + 1, Len(pairs)))

\* the virtual field that __init__ leaves when its checks pass on fields flds,
\* taken in the order of the generator: levels and fids sorted by level
VirtualField(mode, flds) ==
    LET first == flds[1]
        pairs == sorted([n \in 1..Len(flds) |->
                            <<flds[n].geometry.vcoordinate.levels[1], flds[n].fid>>])
        newgeometry == Geom(newstructure(flds[Len(flds)].structure), first.geometry.name,
                            [n \in 1..Len(flds) |-> pairs[n][1]],
                            dimY(first.geometry), dimX(first.geometry))
    IN  [mode |-> mode, structure |-> "3D",
         geometry |-> [newgeometry EXCEPT
                         !.grid = first.geometry.grid,
                         !.position_on_horizontal_grid = first.geometry.position_on_horizontal_grid,
                         !.projection = IF projected_geometry(first.geometry)
                                           \/ first.geometry.name = "academic"
                                        THEN first.geometry.projection ELSE @,
                         !.geoid = IF projected_geometry(first.geometry)
                                   THEN first.geometry.geoid ELSE @,
                         !.vcoordinate.typeoffirstfixedsurface =
                             first.geometry.vcoordinate.typeoffirstfixedsurface,
                         !.vcoordinate.position_on_grid = first.geometry.vcoordinate.position_on_grid,
                         !.vcoordinate.grid = first.geometry.vcoordinate.grid],
         validity |-> first.validity, spectral_geometry |-> first.spectral_geometry,
         fidList |-> [n \in 1..Len(flds) |-> pairs[n][2]],
         spgpOpList |-> <<>>]

\* _getFieldByFid(fid, True): the field of the fieldset, or the field read
getFieldByFid(fid, flds) == flds[CHOOSE id \in Constituents(flds) : flds[id].fid = fid]

\* mutant: getlevel returns the field as it was read
replay_none(self, hp, ops) == [raised |-> FALSE, self |-> self, hp |-> hp]

\* the loop of getlevel on result, whose values are alone on the heap hp:
\* [raised, self, hp]
RECURSIVE replay(_, _, _)
replay(self, hp, ops) ==
    IF ops = <<>> THEN [raised |-> FALSE, self |-> self, hp |-> hp]
    ELSE LET op == Head(ops)
             shp == <<Len(self.validity), Len(self.geometry.vcoordinate.levels),
                      NCoef(op.spectral_geometry)>>
             r == IF op.op = "sp2gp"
                  THEN sp2gp(self, Contig(get_datashape(self.geometry, Len(self.validity)), 1), FALSE)
                  ELSE gp2sp(self, op.spectral_geometry, Contig(shp, 1), FALSE)
             after == IF op.op = "sp2gp" /\ spectral(self) THEN <<sp2gp_gpdata(self, hp)>>
                      ELSE IF op.op = "gp2sp" /\ ~spectral(self)
                      THEN <<gp2sp_spdata(self, op.spectral_geometry, hp)>>
                      ELSE hp
         IN  IF r.raised THEN [raised |-> TRUE, self |-> r.self, hp |-> hp]
             ELSE CHOOSE done \in {replay(r.self, h, Tail(ops)) : h \in {after}} : TRUE

\* D3VirtualField.getlevel(k=k): [raised, self, hp], the values of the level
\* alone on the heap hp; a negative k counts from the last level
vgetlevel(vf, k, flds, heap0) ==
    IF k \notin (0 - Len(vf.fidList))..(Len(vf.fidList) - 1)
    THEN [raised |-> TRUE, self |-> NoField, hp |-> <<>>]
    ELSE LET result == getFieldByFid(vf.fidList[((k + Len(vf.fidList)) % Len(vf.fidList)) + 1], flds)
         IN  replay([result EXCEPT !.data = Contig(result.data.shape, 1)],
                    <<Flat(getdata(result), heap0)>>, vf.spgpOpList)

\* mutant: getlevel reads the field without its data
vgetlevel_reads_nodata(vf, k) ==
    IF vf.mode = "resource" /\ k \in (0 - Len(vf.fidList))..(Len(vf.fidList) - 1)
    THEN <<[fid |-> vf.fidList[((k + Len(vf.fidList)) % Len(vf.fidList)) + 1], getdata |-> FALSE]>>
    ELSE <<>>

\* the calls of resource.readfield that getlevel(k=k) makes
vgetlevel_reads(vf, k) ==
    IF vf.mode = "resource" /\ k \in (0 - Len(vf.fidList))..(Len(vf.fidList) - 1)
    THEN <<[fid |-> vf.fidList[((k + Len(vf.fidList)) % Len(vf.fidList)) + 1], getdata |-> TRUE]>>
    ELSE <<>>

\* what getlevel(k=k).getdata(d4=True) gives for each level k of a virtual field:
\* [raised, shape, flat]
vlevels(vf, flds, heap0) ==
    [k \in 0..(Len(vf.fidList) - 1) |->
        CHOOSE data \in { [raised |-> lev.raised, shape |-> getdata(lev.self).shape,
                           flat |-> Flat(getdata(lev.self), lev.hp)] :
                          lev \in {vgetlevel(vf, k, flds, heap0)} } : TRUE]

\* D3VirtualField.getdata(d4=True): [shape, flat], dataList (the data of the
\* levels) concatenated along the second axis
vgetdata(vf, dataList) ==
    LET Z == Len(vf.fidList)
        shp1 == dataList[0].shape
        rest == Prod(Tail(Tail(shp1)))
    IN  [shape |-> <<shp1[1], Z>> \o Tail(Tail(shp1)),
         flat |-> [c \in 1..(shp1[1] * Z * rest) |->
                     dataList[((c - 1) \div rest) % Z].flat
                         [((c - 1) \div (rest * Z)) * rest + ((c - 1) % rest) + 1]]]

\* D3VirtualField.getvalue_ij: [raised, value]; field2d[k] is the data of what
\* getlevel(k) gives each time the loop asks for level k
vgetvalue_ij(vf, field2d, i, j, k, t, inside) ==
    LET ix == getvalue_ij_indexes(vf.geometry, vf.validity, i, j, k, t, inside)
        pos(x) == getvalue_ij_pos(ix.my, x)
        item(x) == IF pos(x)[2] \notin DOMAIN field2d \/ field2d[pos(x)[2]].raised
                   THEN [raised |-> TRUE, value |-> 0]
                   ELSE Item4(field2d[pos(x)[2]].shape, field2d[pos(x)[2]].flat,
                              <<pos(x)[1], 0, pos(x)[3], pos(x)[4]>>)
        \* the points that the loop reaches: all, or those up to the first failure
        last == IF \A x \in 1..ix.maxsize : ~item(x).raised THEN ix.maxsize
                ELSE CHOOSE x \in 1..ix.maxsize :
                        item(x).raised /\ \A y \in 1..(x - 1) : ~item(y).raised
        \* getlevel(k=thisk) is called where thisk differs from the k of the point
        \* before, and reads the resource if it has a level thisk
        called == SelectSeq([x \in 1..last |-> x],
                            LAMBDA x : /\ (x = 1 \/ pos(x)[2] # pos(x - 1)[2])
                                       /\ vgetlevel_reads(vf, pos(x)[2]) # <<>>)
        reads == IF ix.raised THEN <<>>
                 ELSE [c \in 1..Len(called) |-> vgetlevel_reads(vf, pos(called[c])[2])[1]]
    IN  IF ix.raised \/ \E x \in 1..ix.maxsize : item(x).raised
        THEN [raised |-> TRUE, value |-> <<>>, reads |-> reads]
        ELSE [raised |-> FALSE, value |-> [x \in 1..ix.maxsize |-> item(x).value], reads |-> reads]

VGetValueIJ ==
    /\ vfield # NoVF
    /\ \E field2d \in {vlevels(vfield, fields, heap)} :
       \E i \in IndexArgs, j \in IndexArgs, k \in IndexArgs \ {<<1, 0, 1>>},
          t \in IndexArgs \ {<<1, 0, 1>>} :
       \E inside \in point_is_inside_domain_ij(vfield.geometry, i, j) :
          LET r == vgetvalue_ij(vfield, field2d, i, j, k, t, inside)
          IN  ret' = RetIO("getvalue_ij", r.raised, r.value, <<>>, <<i, j, k, t>>, r.reads)
    /\ UNCHANGED <<fields, heap, vfield, vector, edits>>

\* D3VirtualField.sp2gp: recorded for the fields to read, or done on the fieldset
VSp2gp ==
    LET r1 == IF fields[1] = NoField THEN [raised |-> FALSE, fields |-> fields, heap |-> heap]
              ELSE sp2gp_at(1, fields, heap, FALSE)
        r2 == sp2gp_at(2, r1.fields, r1.heap, FALSE)
        r3 == sp2gp_at(3, r2.fields, r2.heap, FALSE)
    IN  /\ vfield # NoVF
        /\ edits < MaxOps
        /\ edits' = edits + 1
        /\ vfield' = [vfield EXCEPT
                        !.spectral_geometry = "None",
                        !.spgpOpList = IF vfield.mode = "resource"
                                       THEN Append(@, [op |-> "sp2gp", spectral_geometry |-> "None"])
                                       ELSE @]
        /\ fields' = IF vfield.mode = "resource" THEN fields ELSE r3.fields
        /\ heap' = IF vfield.mode = "resource" THEN Collect(fields, <<>>, heap) ELSE r3.heap
        /\ ret' = Ret("sp2gp", vfield.mode # "resource" /\ (r1.raised \/ r2.raised \/ r3.raised),
                      <<>>, <<>>, <<>>)
        /\ UNCHANGED vector

\* D3VirtualField.gp2sp
VGp2sp(spectral_geometry) ==
    LET r1 == IF fields[1] = NoField THEN [raised |-> FALSE, fields |-> fields, heap |-> heap]
              ELSE gp2sp_at(1, spectral_geometry, fields, heap, FALSE)
        r2 == gp2sp_at(2, spectral_geometry, r1.fields, r1.heap, FALSE)
        r3 == gp2sp_at(3, spectral_geometry, r2.fields, r2.heap, FALSE)
    IN  /\ vfield # NoVF
        /\ edits < MaxOps
        /\ edits' = edits + 1
        /\ vfield' = [vfield EXCEPT
                        !.spectral_geometry = spectral_geometry,
                        !.spgpOpList = IF vfield.mode = "resource"
                                       THEN Append(@, [op |-> "gp2sp", spectral_geometry |-> spectral_geometry])
                                       ELSE @]
        /\ fields' = IF vfield.mode = "resource" THEN fields ELSE r3.fields
        /\ heap' = IF vfield.mode = "resource" THEN Collect(fields, <<>>, heap) ELSE r3.heap
        /\ ret' = Ret("gp2sp", vfield.mode # "resource" /\ (r1.raised \/ r2.raised \/ r3.raised),
                      <<>>, <<>>, <<>>)
        /\ UNCHANGED vector

\* the calls of resource.readfield that the loop of __init__ makes on the
\* fields flds that the resource stores
vinit_reads(flds) == [n \in 1..vinit_taken(flds) |-> [fid |-> flds[n].fid, getdata |-> FALSE]]

\* D3VirtualField(fieldset=, resource=, resource_fids=): fieldset and
\* resource_fids list the fields, in their order; [raised, vf, reads]
vinit(fieldset, resource_fids, flds) ==
    LET given == [n \in 1..Len(fieldset) |-> flds[fieldset[n]]]
        found == [n \in 1..Len(resource_fids) |-> flds[resource_fids[n]]]
    IN  IF (fieldset # <<>>) = (resource_fids # <<>>)
        THEN [raised |-> TRUE, vf |-> NoVF, reads |-> <<>>]
        ELSE IF fieldset # <<>>
        THEN [raised |-> vinit_raises(given),
              vf |-> IF vinit_raises(given) THEN NoVF ELSE VirtualField("fieldset", given),
              reads |-> <<>>]
        ELSE [raised |-> vinit_raises(found),
              vf |-> IF vinit_raises(found) THEN NoVF ELSE VirtualField("resource", found),
              reads |-> vinit_reads(found)]

\* the construction of the virtual field, once
VInit(fieldset, resource_fids) ==
    /\ vfield = NoVF /\ ret.op = ""
    /\ \E r \in {vinit(fieldset, resource_fids, fields)} :
          /\ vfield' = r.vf
          /\ ret' = RetIO("init", r.raised, <<>>, <<>>, <<fieldset, resource_fids>>, r.reads)
    /\ UNCHANGED <<fields, heap, edits, vector>>

\* the tests of D3VirtualField.getlevel(level, k) on its arguments, an omitted
\* one being <<>>: [raised, my_k]
vgetlevel_my_k(vf, level, k) ==
    LET levels == vf.geometry.vcoordinate.levels
    IN  IF (k = <<>>) = (level = <<>>) THEN [raised |-> TRUE, my_k |-> 0]
        ELSE IF level = <<>> THEN [raised |-> FALSE, my_k |-> k[1]]
        ELSE IF ~(\E n \in 1..Len(levels) : levels[n] = level[1]) THEN [raised |-> TRUE, my_k |-> 0]
        ELSE [raised |-> FALSE,
              my_k |-> (CHOOSE n \in 1..Len(levels) :
                           levels[n] = level[1] /\ \A m \in 1..(n - 1) : levels[m] # level[1]) - 1]

\* D3VirtualField.getlevel(level, k): the field read has a buffer of its own,
\* the field of a fieldset is the one of the fieldset
VGetLevel(level, k) ==
    /\ vfield # NoVF
    /\ \E a \in {vgetlevel_my_k(vfield, level, k)} :
          IF a.raised
          THEN /\ ret' = RetIO("getlevel", TRUE, <<>>, <<>>, <<level, k>>, <<>>)
               /\ heap' = Collect(fields, <<>>, heap)
          ELSE \E lev \in {vgetlevel(vfield, a.my_k, fields, heap)} :
               \E b \in {FreeBuf(fields, <<>>)} :
               \E out \in {IF lev.raised THEN <<>>
                           ELSE IF vfield.mode = "resource"
                           THEN <<[lev.self EXCEPT !.data.base = b]>>
                           ELSE <<getFieldByFid(lev.self.fid, fields)>>} :
                  /\ ret' = RetIO("getlevel", lev.raised, <<>>, out, <<level, k>>,
                                  vgetlevel_reads(vfield, a.my_k))
                  /\ heap' = IF lev.raised \/ vfield.mode # "resource"
                             THEN Collect(fields, <<>>, heap)
                             ELSE [Collect(fields, <<>>, heap) EXCEPT ![b] = lev.hp[1]]
    /\ UNCHANGED <<fields, vfield, vector, edits>>

\* D3VirtualField.getdata(d4=True): one getlevel(k=k) for each level
VGetData ==
    /\ vfield # NoVF
    /\ \E dataList \in {vlevels(vfield, fields, heap)} :
          LET Z == Len(vfield.fidList)
              raised == \E k \in 0..(Z - 1) : dataList[k].raised
              last == IF ~raised THEN Z
                      ELSE 1 + CHOOSE k \in 0..(Z - 1) :
                                 dataList[k].raised /\ \A m \in 0..(k - 1) : ~dataList[m].raised
          IN  ret' = RetIO("getdata", raised,
                           IF raised THEN <<>> ELSE vgetdata(vfield, dataList).flat, <<>>, <<>>,
                           [n \in 1..(IF vfield.mode = "resource" THEN last ELSE 0) |->
                               vgetlevel_reads(vfield, n - 1)[1]])
    /\ heap' = Collect(fields, <<>>, heap)
    /\ UNCHANGED <<fields, vfield, vector, edits>>

---------------------------------------------------------------------------
(* The construction and the levels of a virtual field on three stored fields *)

\* a single-level H2D field that a resource or a fieldset holds, like the
\* others ("same") or differing from them by one attribute
StoredField(fid, name, level, variant, b) ==
    LET g0 == Geom("H2D", name, <<level>>, 2, 2)
        geometry ==
            CASE variant = "structure" -> Geom("3D", name, <<level>>, 2, 2)
              [] variant = "name" -> Geom("H2D", "academic", <<level>>, 2, 2)
              [] variant = "grid" -> [g0 EXCEPT !.grid = "grid1"]
              [] variant = "dimensions" -> Geom("H2D", name, <<level>>, 1, 2)
              [] variant = "position" -> [g0 EXCEPT !.position_on_horizontal_grid = "lower-left"]
              [] variant = "projection" -> [g0 EXCEPT !.projection = "proj1"]
              [] variant = "geoid" -> [g0 EXCEPT !.geoid = "geoid1"]
              [] variant = "vtype" -> [g0 EXCEPT !.vcoordinate.typeoffirstfixedsurface = 119]
              [] variant = "vposition" -> [g0 EXCEPT !.vcoordinate.position_on_grid = "flux"]
              [] variant = "vgrid" -> [g0 EXCEPT !.vcoordinate.grid = "vgrid1"]
              [] variant = "twolevels" -> Geom("H2D", name, <<level, level + 5>>, 2, 2)
              [] variant = "nolevel" -> Geom("H2D", name, <<>>, 2, 2)
              [] OTHER -> g0
        read == ReadField(fid, geometry,
                          IF variant = "validity" THEN <<0, 6>> ELSE <<0>>,
                          IF variant = "spectral_geometry" THEN "sg1" ELSE "None", b)
    IN  [read EXCEPT !.processtype = IF variant = "processtype" THEN "analysis" ELSE @]

\* three stored fields, their levels in any order, two of them equal or not:
\* at most one field differs from the others by an attribute, the third one may
\* have the fid of the first one
InitVF ==
    /\ \E name \in {"regular_lonlat", "lambert"},
          levels \in { l \in [1..3 -> {10, 20, 30}] :
                         \/ l[1] # l[2] /\ l[1] # l[3] /\ l[2] # l[3]
                         \/ l \in {<<10, 10, 20>>, <<10, 20, 10>>, <<20, 10, 10>>} },
          odd \in FieldIds,
          variant \in {"same", "structure", "name", "grid", "dimensions", "position",
                       "projection", "geoid", "vtype", "vposition", "vgrid", "validity",
                       "spectral_geometry", "processtype", "twolevels", "nolevel"},
          fid3 \in {"c", "a"} :
          /\ variant = "same" => odd = 1
          /\ variant = "projection" => name = "lambert"
          /\ fields = [id \in FieldIds |->
                         StoredField(<<"a", "b", fid3>>[id], name, levels[id],
                                     IF id = odd THEN variant ELSE "same", id)]
          /\ heap = [b \in BufIds |->
                         IF b \in FieldIds THEN Content(fields[b].data.shape, 50 * (b - 1))
                         ELSE <<>>]
    /\ ret = Ret("", FALSE, <<>>, <<>>, <<>>)
    /\ vfield = NoVF
    /\ vector = NoVector
    /\ edits = 0

NextVF ==
    \/ \E fieldset \in {<<>>, <<1, 2, 3>>}, resource_fids \in {<<>>, <<1, 2, 3>>} :
          VInit(fieldset, resource_fids)
    \/ \E level \in {<<>>, <<10>>, <<40>>}, k \in {<<>>, <<0>>, <<2>>, <<-1>>, <<3>>} :
          VGetLevel(level, k)
    \/ VGetData
    \/ VSp2gp
    \/ VGp2sp("sg1")

SpecVF == InitVF /\ [][NextVF]_vars

---------------------------------------------------------------------------
(* The spectral geometry of a virtual field on three stored fields that    *)
(* are all gridpoint, or all spectral with the geometry sg2                *)

InitVSpectral ==
    /\ \E sg0 \in {"None", "sg2"}, validity \in Validities :
          /\ fields = [id \in FieldIds |->
                         ReadField(<<"a", "b", "c">>[id],
                                   Geom("H2D", "regular_lonlat", <<10 * id>>, 2, 2),
                                   validity, sg0, id)]
          /\ heap = [b \in BufIds |->
                         IF b \in FieldIds THEN Content(fields[b].data.shape, 50 * (b - 1))
                         ELSE <<>>]
    /\ ret = Ret("", FALSE, <<>>, <<>>, <<>>)
    /\ vfield = NoVF
    /\ vector = NoVector
    /\ edits = 0

NextVSpectral ==
    \/ \E fieldset \in {<<>>, <<1, 2, 3>>}, resource_fids \in {<<>>, <<1, 2, 3>>} :
          VInit(fieldset, resource_fids)
    \/ \E k \in {<<0>>, <<1>>, <<2>>} : VGetLevel(<<>>, k)
    \/ VSp2gp
    \/ \E sg \in SpectralGeometries : VGp2sp(sg)

SpecVSpectral == InitVSpectral /\ [][NextVSpectral]_vars

---------------------------------------------------------------------------
(* The life of one field *)

\* spectral_geometry is optional: a field built without it holds None, or the
\* placeholder '__unknown__' of an attribute that was not given
Init ==
    /\ \E geometry \in Geometries, validity \in Validities,
          sg \in {"None", "__unknown__", "sg1"} :
          /\ fields = [id \in FieldIds |->
                         IF id = 1 THEN ReadField("f", geometry, validity, sg, 1) ELSE NoField]
          /\ heap = [b \in BufIds |->
                         IF b = 1 THEN Content(fields[1].data.shape, 0) ELSE <<>>]
    /\ ret = Ret("", FALSE, <<>>, <<>>, <<>>)
    /\ vfield = NoVF
    /\ vector = NoVector
    /\ edits = 0

Next ==
    \/ \E shape \in InputShapes : SetData(1, shape)
    \/ \E fail \in BOOLEAN : Sp2gp(1, fail)
    \/ \E sg \in SpectralGeometries, fail \in BOOLEAN : Gp2sp(1, sg, fail)
    \/ \E geometry \in {fields[1].geometry, Geom("3D", "regular_lonlat", <<10, 20>>, 2, 2)},
          validity \in Validities, sg \in {"None", "sg1"} : Extend(1, geometry, validity, sg)
    \/ \E center \in BOOLEAN : Decumulate(1, center)
    \/ \E n \in {-1, 0, 1, 3} : GlobalShiftCenter(1, n)
    \/ ComputeXYSpderivatives(1)
    \/ SetGetData(1)

Spec == Init /\ [][Next]_vars

---------------------------------------------------------------------------
(* Values read by index on a field, or on a virtual field of two levels *)

InitIJ ==
    /\ \/ /\ \E geometry \in {g \in Geometries : Len(g.vcoordinate.levels) = 2 \/ g.name = "reduced_gauss"},
                validity \in Validities, sg \in {"None", "sg1"} :
                /\ sg = "sg1" => (geometry.structure = "3D" /\ validity = <<0>>)
                /\ fields = [id \in FieldIds |->
                               IF id = 1 THEN ReadField("f", geometry, validity, sg, 1) ELSE NoField]
          /\ heap = [b \in BufIds |->
                         IF b = 1 THEN Content(fields[1].data.shape, 0) ELSE <<>>]
          /\ vfield = NoVF
          /\ vector = NoVector
       \/ /\ fields = [id \in FieldIds |->
                         CASE id = 1 -> NoField
                           [] id = 2 -> ReadField("a", Geom("H2D", "regular_lonlat", <<20>>, 2, 2),
                                                  <<0, 6>>, "None", 2)
                           [] id = 3 -> ReadField("b", Geom("H2D", "regular_lonlat", <<10>>, 2, 2),
                                                  <<0, 6>>, "None", 3)]
          /\ heap = [b \in BufIds |->
                         CASE b = 2 -> Content(fields[2].data.shape, 0)
                           [] b = 3 -> Content(fields[3].data.shape, 50)
                           [] OTHER -> <<>>]
          /\ \E mode \in {"fieldset", "resource"} :
                vfield = VirtualField(mode, <<fields[2], fields[3]>>)
          /\ vector = NoVector
    /\ ret = Ret("", FALSE, <<>>, <<>>, <<>>)
    /\ edits = 0

NextIJ ==
    \/ GetValueIJ(1)
    \/ VGetValueIJ
    \/ VSp2gp
    \/ VGp2sp("sg1")

SpecIJ == InitIJ /\ [][NextIJ]_vars

---------------------------------------------------------------------------
(* Fields derived from a field: getlevel, getvalidity, extract_subarray and *)
(* the arithmetic between two fields.  Field 1 is the source, field 2 the   *)
(* other operand, field 3 the derived field that the caller keeps.          *)

\* numpy.squeeze: the shape without its axes of size 1
Squeeze(shape) == SelectSeq(shape, LAMBDA d : d # 1)

\* the end of a python slice first:last on an axis of n cells
SliceStop(last, n) == IF last > n THEN n ELSE last

\* a[index:index + 1, ...]: basic slicing along the first axis returns a view
SliceT(a, index) ==
    LET rest == Prod(Tail(a.shape))
    IN  [shape |-> <<1>> \o Tail(a.shape), base |-> a.base,
         idx |-> SubSeq(a.idx, index * rest + 1, (index + 1) * rest)]

\* the structure of one level of a field; "" when a level cannot be extracted
getlevel_newstructure(structure) ==
    CASE structure = "3D" -> "H2D"
      [] structure = "V2D" -> "H1D"
      [] structure = "V1D" -> "Point"
      [] OTHER -> ""

\* generic_fid = self.fid.get('generic', {}); generic_fid['level'] = my_level:
\* the dict of the source's fid as the assignment leaves it.  With the key
\* 'generic' get returns the dict of the fid itself, without it the default,
\* a dict the fid does not hold.
getlevel_generic_fid(generic, my_level) ==
    IF generic.present THEN [generic EXCEPT !.level = <<my_level>>] ELSE generic

\* D3Field.getlevel(level, k), an omitted argument being <<>>: [raised, self,
\* source], self the new field and source the field the level is taken from,
\* as the call leaves it
getlevel(self, level, k) ==
    LET levels == self.geometry.vcoordinate.levels
        raise == [raised |-> TRUE, self |-> NoField, source |-> self]
    IN  IF (k = <<>>) = (level = <<>>) THEN raise
        ELSE IF level # <<>> /\ ~(\E n \in 1..Len(levels) : levels[n] = level[1]) THEN raise
        ELSE IF level = <<>> /\ k[1] \notin 0..(Len(levels) - 1) THEN raise
        ELSE IF getlevel_newstructure(self.structure) = "" THEN raise
        ELSE
        LET my_k == IF level # <<>>
                    THEN (CHOOSE n \in 1..Len(levels) :
                              levels[n] = level[1] /\ \A m \in 1..(n - 1) : levels[m] # level[1]) - 1
                    ELSE k[1]
            my_level == levels[my_k + 1]
            source == [self EXCEPT !.generic = getlevel_generic_fid(self.generic, my_level)]
        \* spectral_geometry.copy() of the placeholder, [:, k:k+1, :, :] of 3D data
        IN  IF self.spectral_geometry # "None"
            THEN [raised |-> TRUE, self |-> NoField, source |-> source]
            ELSE
            LET newgeometry == Geom(getlevel_newstructure(self.structure), self.geometry.name,
                                    <<my_level>>, dimY(self.geometry), dimX(self.geometry))
                newfield == [Field(self.fid, newgeometry, self.validity, self.spectral_geometry)
                                EXCEPT !.generic = [present |-> TRUE, level |-> <<my_level>>]]
                data == getdata(self)
                r == setdata(newfield, Slice4(data, <<0, my_k, 0, 0>>,
                                              <<data.shape[1], my_k + 1, data.shape[3],
                                                data.shape[4]>>))
            IN  [raised |-> r.raised, self |-> r.self, source |-> source]

\* D3Field.getvalidity(index_or_validity), the argument being an index
\* (isint) or a validity: [raised, self], self the new field.  With a negative
\* index the slice index:index + 1 is empty and setdata refuses it.
getvalidity(self, index_or_validity) ==
    LET arg == index_or_validity
        found == {n \in 1..Len(self.validity) : self.validity[n] = arg.v}
        raise == [raised |-> TRUE, self |-> NoField]
    IN  IF arg.isint /\ arg.v \notin 0..(Len(self.validity) - 1) THEN raise
        ELSE IF ~arg.isint /\ found = {} THEN raise
        ELSE
        LET index == IF arg.isint THEN arg.v
                     ELSE (CHOOSE n \in found : \A m \in found : n <= m) - 1
            validity == self.validity[index + 1]
            \* self.deepcopy(); its copy of the data is replaced by setdata
            newfield == [self EXCEPT !.validity = <<validity>>]
        IN  setdata(newfield, SliceT(getdata(self), index))

\* geometry.make_subarray_geometry(first_i, last_i, first_j, last_j)
make_subarray_geometry(geometry, first_i, last_i, first_j, last_j) ==
    [geometry EXCEPT !.dimensions = [X |-> last_i - first_i, Y |-> last_j - first_j]]

\* D3Field.extract_subarray: [raised, self], self the new field
extract_subarray(self, first_i, last_i, first_j, last_j) ==
    IF spectral(self) THEN [raised |-> TRUE, self |-> NoField]
    ELSE
    LET newgeom == make_subarray_geometry(self.geometry, first_i, last_i, first_j, last_j)
        data == getdata(self)
        subdata == Slice4(data, <<0, 0, first_j, first_i>>,
                          <<data.shape[1], data.shape[2],
                            SliceStop(last_j, data.shape[3]), SliceStop(last_i, data.shape[4])>>)
        newfield == Field(self.fid, newgeom, self.validity, self.spectral_geometry)
    IN  setdata(newfield, subdata)

\* mutant: the operands are not compared on geometry.dimensions
check_operands_nodims(self, other) ==
    /\ spectral(self) = spectral(other)
    /\ self.spectral_geometry = other.spectral_geometry
    /\ Len(self.validity) = Len(other.validity)

\* D3Field._check_operands(other), other being a field of the same class:
\* TRUE when no assertion fails
check_operands(self, other) ==
    /\ spectral(self) = spectral(other)
    /\ self.geometry.dimensions = other.geometry.dimensions
    /\ self.spectral_geometry = other.spectral_geometry
    /\ Len(self.validity) = Len(other.validity)

ArithOps == {"add", "mul", "sub", "div", "rsub", "rdiv"}

\* the operation on two values, a quotient being kept in integers
binop(op, a, b) ==
    CASE op = "add" -> a + b
      [] op = "mul" -> a * b
      [] op = "sub" -> a - b
      [] op = "rsub" -> b - a
      [] op = "div" -> a \div b
      [] op = "rdiv" -> b \div a

\* numpy broadcasting of squeezed shapes: s is the tail of l
IsTail(s, l) == Len(s) <= Len(l) /\ SubSeq(l, Len(l) - Len(s) + 1, Len(l)) = s

\* FieldValidityList(length=n): null validities
NullValidity(n) == [x \in 1..n |-> -1]

\* Field._add, _mul, ... of the base class: check the operands, operate on the
\* squeezed data, build the new field from kwargs and set its data:
\* [raised, self, heap], self the new field on a new buffer
Field_operate(op, self, other, newfield, flds, hp) ==
    LET a == Squeeze(getdata(self).shape)
        b == Squeeze(getdata(other).shape)
        raise == [raised |-> TRUE, self |-> NoField, heap |-> hp]
    IN  IF ~check_operands(self, other) THEN raise
        ELSE IF ~(IsTail(a, b) \/ IsTail(b, a)) THEN raise
        ELSE
        LET shape == IF IsTail(a, b) THEN b ELSE a
            buf == FreeBuf(flds, <<>>)
            fa == Flat(getdata(self), hp)
            fb == Flat(getdata(other), hp)
            rawdata == [n \in 1..Prod(shape) |->
                           binop(op, fa[((n - 1) % Prod(a)) + 1], fb[((n - 1) % Prod(b)) + 1])]
            r == setdata(newfield, Contig(shape, buf))
        IN  IF r.raised THEN raise
            ELSE [raised |-> FALSE, self |-> r.self, heap |-> [hp EXCEPT ![buf] = rawdata]]

\* D3Field.__add__, __mul__, __sub__, __div__, __rsub__, __rdiv__
arith(op, self, other, flds, hp) ==
    Field_operate(op, self, other,
                  Field(op, self.geometry, NullValidity(Len(self.validity)), self.spectral_geometry),
                  flds, hp)

\* the caller keeps the field that the call returned, if it returned
Keep(op, r, hp, args) ==
    /\ fields' = [fields EXCEPT ![3] = IF r.raised THEN @ ELSE r.self]
    /\ heap' = Collect(fields', <<>>, hp)
    /\ ret' = Ret(op, r.raised, <<>>, <<>>, args)
    /\ UNCHANGED <<vfield, vector, edits>>

\* newfield = field.getlevel(level, k): the source is the caller's field 1
GetLevel(level, k) ==
    \E r \in {getlevel(fields[1], level, k)} :
        /\ fields' = [fields EXCEPT ![1] = r.source, ![3] = IF r.raised THEN @ ELSE r.self]
        /\ heap' = Collect(fields', <<>>, heap)
        /\ ret' = Ret("getlevel", r.raised, <<>>, <<>>, <<level, k>>)
        /\ UNCHANGED <<vfield, vector, edits>>

GetValidity(index_or_validity) ==
    \E r \in {getvalidity(fields[1], index_or_validity)} : Keep("getvalidity", r, heap, <<>>)

ExtractSubarray(first_i, last_i, first_j, last_j) ==
    \E r \in {extract_subarray(fields[1], first_i, last_i, first_j, last_j)} :
        Keep("extract_subarray", r, heap, <<>>)

Arith(op) ==
    \E r \in {arith(op, fields[1], fields[2], [fields EXCEPT ![3] = NoField], heap)} :
        Keep(op, r, r.heap, <<>>)

\* field.getdata(d4=True).flat[n - 1] = v by the caller: getdata returns the
\* array of the field, not a copy
WriteCell(f, n, v) ==
    /\ fields[f] # NoField
    /\ n \in 1..Len(getdata(fields[f]).idx)
    /\ edits < MaxEdits
    /\ edits' = edits + 1
    /\ heap' = [heap EXCEPT ![getdata(fields[f]).base][getdata(fields[f]).idx[n]] = v]
    /\ ret' = Ret("write", FALSE, <<>>, <<>>, << <<f>>, <<n>> >>)
    /\ UNCHANGED <<fields, vfield, vector>>

\* the sources: (geometry, validity, spectral_geometry) of fields on a
\* rectangular grid
Sources ==
    { <<Geom("3D", "regular_lonlat", <<10, 20>>, 2, 2), <<0>>, "None">>,
      <<Geom("3D", "regular_lonlat", <<10, 20>>, 2, 2), <<0, 6>>, "None">>,
      <<Geom("3D", "regular_lonlat", <<10, 20>>, 2, 2), <<0>>, "sg1">>,
      <<Geom("H2D", "regular_lonlat", <<10>>, 2, 2), <<0, 6>>, "__unknown__">>,
      <<Geom("V1D", "regular_lonlat", <<10, 20>>, 1, 1), <<0>>, "None">> }

\* the other operands: (geometry, validity, spectral_geometry) as the source,
\* or with other dimensions, levels, validities or spectral geometry
Others(geometry, validity, sg) ==
    {<<geometry, validity, sg>>}
    \cup {<<Geom(geometry.structure, geometry.name, geometry.vcoordinate.levels,
                 1, dimX(geometry)), validity, sg>>}
    \cup {<<Geom(geometry.structure, geometry.name, <<Head(geometry.vcoordinate.levels)>>,
                 dimY(geometry), dimX(geometry)), validity, sg>>}
    \cup {<<geometry, v, sg>> : v \in Validities}
    \cup {<<geometry, validity, g>> : g \in {"None", "__unknown__", "sg2"}}

\* two fields as a resource gives them
InitDerive ==
    /\ \E self \in Sources : \E other \in Others(self[1], self[2], self[3]) :
          /\ fields = [id \in FieldIds |->
                         CASE id = 1 -> ReadField("f", self[1], self[2], self[3], 1)
                           [] id = 2 -> ReadField("g", other[1], other[2], other[3], 2)
                           [] id = 3 -> NoField]
          /\ heap = [b \in BufIds |->
                         CASE b = 1 -> Content(fields[1].data.shape, 0)
                           [] b = 2 -> Content(fields[2].data.shape, 50)
                           [] OTHER -> <<>>]
    /\ ret = Ret("", FALSE, <<>>, <<>>, <<>>)
    /\ vfield = NoVF
    /\ vector = NoVector
    /\ edits = 0

NextDerive ==
    \/ \E level \in {<<>>, <<20>>}, k \in {<<>>, <<0>>, <<2>>} : GetLevel(level, k)
    \/ \E index_or_validity \in {[isint |-> TRUE, v |-> -1], [isint |-> TRUE, v |-> 0],
                                 [isint |-> TRUE, v |-> 1], [isint |-> FALSE, v |-> 6]} :
          GetValidity(index_or_validity)
    \/ \E i \in {<<0, 2>>, <<1, 2>>, <<0, 3>>}, j \in {<<0, 2>>, <<1, 2>>} :
          ExtractSubarray(i[1], i[2], j[1], j[2])
    \/ \E op \in ArithOps : Arith(op)
    \/ \E f \in {1, 3} : \E n \in {1, Len(getdata(fields[f]).idx)} : WriteCell(f, n, 99)

SpecDerive == InitDerive /\ [][NextDerive]_vars

\* the dict fid['generic'] of a field as a resource gives it: FA and LFI fields
\* have none, a GRIB field has one with or without the key 'level'
Generics == {NoGeneric, [present |-> TRUE, level |-> <<>>], [present |-> TRUE, level |-> <<10>>]}

\* one field as a resource gives it, levels are taken from it
InitLevel ==
    /\ \E self \in Sources, generic \in Generics :
          /\ fields = [id \in FieldIds |->
                         IF id = 1
                         THEN [ReadField("f", self[1], self[2], self[3], 1)
                                  EXCEPT !.generic = generic]
                         ELSE NoField]
          /\ heap = [b \in BufIds |->
                         IF b = 1 THEN Content(fields[1].data.shape, 0) ELSE <<>>]
    /\ ret = Ret("", FALSE, <<>>, <<>>, <<>>)
    /\ vfield = NoVF
    /\ vector = NoVector
    /\ edits = 0

NextLevel ==
    \/ \E level \in {<<>>, <<10>>, <<20>>, <<30>>}, k \in {<<>>, <<0>>, <<1>>, <<2>>} :
          GetLevel(level, k)
    \/ \E n \in {1, Len(getdata(fields[3]).idx)} : WriteCell(3, n, 99)

SpecLevel == InitLevel /\ [][NextLevel]_vars

---------------------------------------------------------------------------
(* H2DVectorField (fields/H2DVectorField.py).  vector.components lists the *)
(* components by their place in fields: the vector holds references to     *)
(* the fields, it does not copy them.                                      *)

\* the most components a vector is given
MaxComponents == 3

\* isinstance(f, H2DField)
isH2DField(f) == f.structure = "H2D"

\* for f in self.components: f.sp2gp(); the transform of component number
\* fail raises (0: none does): [raised, fields, heap]
RECURSIVE vector_sp2gp(_, _, _, _)
vector_sp2gp(components, flds, hp, fail) ==
    IF components = <<>> THEN [raised |-> FALSE, fields |-> flds, heap |-> hp]
    ELSE LET r == sp2gp_at(Head(components), flds, hp, fail = 1)
         IN  IF r.raised THEN r
             ELSE vector_sp2gp(Tail(components), r.fields, r.heap, fail - 1)

\* for f in self.components: f.gp2sp(spectral_geometry=spectral_geometry)
RECURSIVE vector_gp2sp(_, _, _, _, _)
vector_gp2sp(components, spectral_geometry, flds, hp, fail) ==
    IF components = <<>> THEN [raised |-> FALSE, fields |-> flds, heap |-> hp]
    ELSE LET r == gp2sp_at(Head(components), spectral_geometry, flds, hp, fail = 1)
         IN  IF r.raised THEN r
             ELSE vector_gp2sp(Tail(components), spectral_geometry, r.fields, r.heap, fail - 1)

\* the loop of setdata: self.components[i].setdata(data[i]), data[i] an array
\* of shape shapes[i] made by the caller
RECURSIVE vector_setdata(_, _, _, _)
vector_setdata(components, shapes, flds, hp) ==
    IF components = <<>> THEN [raised |-> FALSE, fields |-> flds, heap |-> hp]
    ELSE LET b == FreeBuf(flds, <<>>)
             r == setdata(flds[Head(components)], Contig(Head(shapes), b))
             after == [flds EXCEPT ![Head(components)] = r.self]
             hp2 == Collect(after, <<>>, [hp EXCEPT ![b] = Content(Head(shapes), 0)])
         IN  IF r.raised THEN [raised |-> TRUE, fields |-> after, heap |-> hp2]
             ELSE vector_setdata(Tail(components), Tail(shapes), after, hp2)

\* numpy broadcasting of the shapes a and b: [ok, shape]
broadcast(a, b) ==
    LET n == IF Len(a) > Len(b) THEN Len(a) ELSE Len(b)
        pad(s) == [x \in 1..n |-> IF x <= n - Len(s) THEN 1 ELSE s[x - (n - Len(s))]]
    IN  [ok |-> \A x \in 1..n : pad(a)[x] = pad(b)[x] \/ pad(a)[x] = 1 \/ pad(b)[x] = 1,
         shape |-> [x \in 1..n |-> IF pad(a)[x] = 1 THEN pad(b)[x] ELSE pad(a)[x]]]

\* flds[f].operation_with_other(op, m), m the map factor field of geometry
\* (gridpoint, its values 2 everywhere): the data of the field is replaced by
\* data op m.data: [raised, fields, heap]
operation_with_other(f, op, geometry, flds, hp) ==
    LET self == flds[f]
        bc == broadcast(getdata(self).shape, get_datashape(geometry, 1))
        buf == FreeBuf(flds, <<>>)
        fa == Flat(getdata(self), hp)
        r == setdata(self, Contig(bc.shape, buf))
        after == [flds EXCEPT ![f] = r.self]
    IN  IF ~bc.ok \/ r.raised THEN [raised |-> TRUE, fields |-> flds, heap |-> hp]
        ELSE [raised |-> FALSE, fields |-> after,
              heap |-> Collect(after, <<>>,
                               [hp EXCEPT ![buf] = [n \in 1..Prod(bc.shape) |->
                                    binop(op, fa[((n - 1) % Len(fa)) + 1], 2)]])]

\* make_vector_field(fX, fY), or its epygramError
MakeVectorField(fX, fY) ==
    LET X == fields[fX]
        Y == fields[fY]
        raised == \/ ~isH2DField(X) \/ ~isH2DField(Y)
                  \/ X.geometry.dimensions # Y.geometry.dimensions
                  \/ X.spectral_geometry # Y.spectral_geometry
                  \/ X.structure # Y.structure
    IN  /\ vector = NoVector
        /\ vector' = IF raised THEN NoVector
                     ELSE [structure |-> X.structure, validity |-> X.validity,
                           processtype |-> X.processtype, components |-> <<fX, fY>>]
        /\ ret' = Ret("make_vector_field", raised, <<>>, <<>>, <<>>)
        /\ UNCHANGED <<fields, heap, vfield, edits>>

\* fpx.field(structure='H2D', vector=True, validity=, components=): the
\* footprint takes any list of components
BuildVector(validity, components) ==
    /\ vector = NoVector
    /\ vector' = [structure |-> "H2D", validity |-> validity,
                  processtype |-> "forecast", components |-> components]
    /\ ret' = Ret("field", FALSE, <<>>, <<>>, <<>>)
    /\ UNCHANGED <<fields, heap, vfield, edits>>

\* attach_components(*components)
AttachComponents(components) ==
    LET raised == \E n \in 1..Len(components) : ~isH2DField(fields[components[n]])
    IN  /\ vector # NoVector
        /\ \A n \in 1..Len(components) : fields[components[n]] # NoField
        /\ Len(vector.components) + Len(components) <= MaxComponents
        /\ \A n \in 1..Len(components), m \in 1..Len(vector.components) :
              components[n] # vector.components[m]
        /\ vector' = IF raised THEN vector
                     ELSE [vector EXCEPT !.components = @ \o components]
        /\ ret' = Ret("attach_components", raised, <<>>, <<>>, <<>>)
        /\ UNCHANGED <<fields, heap, vfield, edits>>

\* H2DVectorField.sp2gp
VectorSp2gp(fail) ==
    /\ vector # NoVector
    /\ edits < MaxOps
    /\ edits' = edits + 1
    /\ \E r \in {vector_sp2gp(vector.components, fields, heap, fail)} :
          /\ fields' = r.fields
          /\ heap' = r.heap
          /\ ret' = Ret("sp2gp", r.raised, <<>>, <<>>, <<>>)
    /\ UNCHANGED <<vfield, vector>>

\* H2DVectorField.gp2sp
VectorGp2sp(spectral_geometry, fail) ==
    /\ vector # NoVector
    /\ edits < MaxOps
    /\ edits' = edits + 1
    /\ \E r \in {vector_gp2sp(vector.components, spectral_geometry, fields, heap, fail)} :
          /\ fields' = r.fields
          /\ heap' = r.heap
          /\ ret' = Ret("gp2sp", r.raised, <<>>, <<>>, <<>>)
    /\ UNCHANGED <<vfield, vector>>

\* H2DVectorField.setdata(data), data a list of arrays of these shapes
VectorSetData(shapes) ==
    /\ vector # NoVector
    /\ edits < MaxOps
    /\ edits' = edits + 1
    /\ \E r \in {IF Len(shapes) # Len(vector.components)
                 THEN [raised |-> TRUE, fields |-> fields, heap |-> heap]
                 ELSE vector_setdata(vector.components, shapes, fields, heap)} :
          /\ fields' = r.fields
          /\ heap' = r.heap
          /\ ret' = Ret("setdata", r.raised, <<>>, <<>>, <<>>)
    /\ UNCHANGED <<vfield, vector>>

\* H2DVectorField.map_factorize(reverse): an IndexError when components[0]
\* or components[1] is missing
map_factorize(self, reverse, flds, hp) ==
    LET c == self.components
        raise(r) == [raised |-> TRUE, fields |-> r.fields, heap |-> r.heap]
        start == [raised |-> FALSE, fields |-> flds, heap |-> hp]
    IN  IF c = <<>> THEN raise(start)
        ELSE
        LET was_spectral == spectral(flds[c[1]])
            spgeom == flds[c[1]].spectral_geometry
            op == IF reverse THEN "div" ELSE "mul"
            r1 == IF was_spectral THEN vector_sp2gp(c, flds, hp, 0) ELSE start
        IN  IF r1.raised THEN r1
            ELSE
            LET geometry == r1.fields[c[1]].geometry
                r2 == operation_with_other(c[1], op, geometry, r1.fields, r1.heap)
            IN  IF r2.raised \/ Len(c) < 2 THEN raise(r2)
                ELSE
                LET r3 == operation_with_other(c[2], op, geometry, r2.fields, r2.heap)
                IN  IF r3.raised \/ ~was_spectral THEN r3
                    ELSE vector_gp2sp(c, spgeom, r3.fields, r3.heap, 0)

MapFactorize(reverse) ==
    /\ vector # NoVector
    /\ edits < MaxOps
    /\ edits' = edits + 1
    /\ \E r \in {map_factorize(vector, reverse, fields, heap)} :
          /\ fields' = r.fields
          /\ heap' = r.heap
          /\ ret' = Ret("map_factorize", r.raised, <<>>, <<>>, <<>>)
    /\ UNCHANGED <<vfield, vector>>

\* newcomponents of self op self: [self.components[i] op self.components[i]],
\* each new field taking the place of the component it is made of
RECURSIVE vector_newcomponents(_, _, _, _)
vector_newcomponents(op, components, flds, hp) ==
    IF components = <<>> THEN [raised |-> FALSE, fields |-> flds, heap |-> hp]
    ELSE LET c == Head(components)
             r == arith(op, flds[c], flds[c], flds, hp)
             after == [flds EXCEPT ![c] = r.self]
         IN  IF r.raised THEN [raised |-> TRUE, fields |-> flds, heap |-> hp]
             ELSE vector_newcomponents(op, Tail(components), after,
                                       Collect(after, <<>>, r.heap))

\* v = v op v (__add__, __mul__, __sub__, __div__): the caller keeps the new
\* vector, made of the new components, in place of the vector
VectorArith(op) ==
    /\ vector # NoVector
    /\ edits < MaxOps
    /\ edits' = edits + 1
    /\ \E r \in {vector_newcomponents(op, vector.components, fields, heap)} :
          /\ fields' = IF r.raised THEN fields ELSE r.fields
          /\ heap' = IF r.raised THEN heap ELSE r.heap
          /\ ret' = Ret(op, r.raised, <<>>, <<>>, <<>>)
    /\ UNCHANGED <<vfield, vector>>

\* a field that differs from the field u in one aspect, or in none
VariantOf(u, fid, variant, b) ==
    LET g == u.geometry
    IN  CASE variant = "none" -> NoField
          [] variant = "same" -> ReadField(fid, g, u.validity, u.spectral_geometry, b)
          [] variant = "dimensions" ->
                ReadField(fid, Geom("H2D", g.name, <<10>>, 1, 2), u.validity,
                          u.spectral_geometry, b)
          [] variant = "validity" -> ReadField(fid, g, <<0, 6>>, u.spectral_geometry, b)
          [] variant = "spectral_geometry" ->
                ReadField(fid, g, u.validity,
                          IF u.spectral_geometry = "None" THEN "sg1" ELSE "sg2", b)
          [] variant = "structure" ->
                ReadField(fid, Geom("3D", g.name, <<10, 20>>, 2, 2), u.validity,
                          u.spectral_geometry, b)

\* three H2D fields read from a resource, the second and the third as the
\* first or differing from it
InitVec ==
    /\ \E sg \in {"None", "sg1"},
          v \in {"same", "dimensions", "validity", "spectral_geometry", "structure"},
          w \in {"none", "same", "dimensions"} :
          \E u \in {ReadField("u", Geom("H2D", "lambert", <<10>>, 2, 2), <<0>>, sg, 1)} :
          \E fv \in {VariantOf(u, "v", v, 2)}, fw \in {VariantOf(u, "w", w, 3)} :
              /\ fields = [id \in FieldIds |->
                             CASE id = 1 -> u [] id = 2 -> fv [] id = 3 -> fw]
              /\ heap = [b \in BufIds |->
                             CASE b = 1 -> Content(u.data.shape, 0)
                               [] b = 2 -> Content(fv.data.shape, 50)
                               [] b = 3 /\ fw # NoField -> Content(fw.data.shape, 100)
                               [] OTHER -> <<>>]
    /\ ret = Ret("", FALSE, <<>>, <<>>, <<>>)
    /\ vfield = NoVF
    /\ vector = NoVector
    /\ edits = 0

NextVec ==
    \/ \E fX \in {1}, fY \in {2} : MakeVectorField(fX, fY)
    \/ \E validity \in {<<0>>}, components \in {<<>>, <<1>>, <<1, 2>>} :
          BuildVector(validity, components)
    \/ \E components \in {<<2>>, <<3>>, <<2, 3>>} : AttachComponents(components)
    \/ \E fail \in {0, 2} : VectorSp2gp(fail)
    \/ \E fail \in {0, 2} : VectorGp2sp("sg1", fail)
    \/ \E shapes \in {<<>>, << <<2, 2>>, <<2, 2>> >>, << <<2, 2>>, <<2>> >>} :
          VectorSetData(shapes)
    \/ \E reverse \in BOOLEAN : MapFactorize(reverse)
    \/ \E op \in {"add"} : VectorArith(op)

SpecVec == InitVec /\ [][NextVec]_vars

---------------------------------------------------------------------------
(* extract_zoom.  Longitudes and latitudes are integers (tenths of a       *)
(* degree): the grids have the resolution XRes by YRes, gridpoint (j, i)   *)
(* lies at (input_lon + i * XRes, input_lat + j * YRes) and the longitudes *)
(* have the period Period, which stands for 360 degrees.                   *)

\* geometry.grid['X_resolution'].get('degrees'), in tenths of a degree
XRes == 20
\* geometry.grid['Y_resolution'], the same as along X
YRes == XRes
\* the period of the longitudes: a grid of 4 columns is global
Period == 4 * XRes

\* the depth of recursion at which the interpreter raises RecursionError
RecursionLimit == 3

\* ceil(a / b) and round(a / b) of numpy, a half going to the even integer
CeilDiv(a, b) == -((-a) \div b)

RoundDiv(a, b) ==
    LET f == a \div b
        r == a % b
    IN  IF 2 * r < b THEN f
        ELSE IF 2 * r > b THEN f + 1
        ELSE IF f % 2 = 0 THEN f ELSE f + 1

\* util.degrees_nearest_mod(d, ref): d modulo the period, the nearest to ref
degrees_nearest_mod(d, ref) == d - RoundDiv(d - ref, Period) * Period

\* geometry.ll2ij(lon, lat) of a regular_lonlat geometry, the longitude taken
\* nearest to the center of the grid: (i, j) times the resolution
ll2ij(geometry, lon, lat) ==
    LET center_lon == geometry.input_lon + ((geometry.dimensions.X - 1) * XRes) \div 2
    IN  [i |-> degrees_nearest_mod(lon, center_lon) - geometry.input_lon,
         j |-> lat - geometry.input_lat]

\* the zoom with 1/10th of its extension added on each side
zoom_extra_10th(zoom) ==
    LET dx == (degrees_nearest_mod(zoom.lonmax, 0) - degrees_nearest_mod(zoom.lonmin, 0)) \div 10
        dy == (zoom.latmax - zoom.latmin) \div 10
    IN  [lonmin |-> zoom.lonmin - dx, lonmax |-> zoom.lonmax + dx,
         latmin |-> zoom.latmin - dy, latmax |-> zoom.latmax + dy]

\* mutant: the gridpoints on the edges of the box are left out
zoom_bounds_open(lo, hi, res, n) ==
    [min |-> IF (lo \div res) + 1 > 0 THEN (lo \div res) + 1 ELSE 0,
     max |-> IF CeilDiv(hi, res) - 1 < n - 1 THEN CeilDiv(hi, res) - 1 ELSE n - 1]

\* max(int(numpy.ceil(imin)), 0) and min(int(numpy.floor(imax)), n - 1), lo
\* and hi being imin and imax times the resolution
zoom_bounds(lo, hi, res, n) ==
    [min |-> IF CeilDiv(lo, res) > 0 THEN CeilDiv(lo, res) ELSE 0,
     max |-> IF hi \div res < n - 1 THEN hi \div res ELSE n - 1]

\* the branch of extract_zoom for a regular_lonlat geometry, values being the
\* 4D data of this shape in C order and depth the calls that extract_zoom
\* made to itself so far: [error, calls, X, Y, input_lon, input_lat, values]
RECURSIVE extract_zoom_regular(_, _, _, _, _)
extract_zoom_regular(geometry, shape, values, zoom, depth) ==
    LET X == geometry.dimensions.X
        Y == geometry.dimensions.Y
        lo == ll2ij(geometry, zoom.lonmin, zoom.latmin)
        hi == ll2ij(geometry, zoom.lonmax, zoom.latmax)
        fail(error) == [error |-> error, calls |-> depth, X |-> 0, Y |-> 0,
                        input_lon |-> 0, input_lat |-> 0, values |-> <<>>]
    IN  IF lo.i >= hi.i
        THEN IF depth = RecursionLimit THEN fail("RecursionError")
             \* geometry.global_shift_center: only if the grid is global
             ELSE IF X * XRes # Period THEN fail("epygramError")
             ELSE
             LET gridmin == geometry.input_lon
                 diff_lonmin == gridmin - degrees_nearest_mod(zoom.lonmin, gridmin)
                 shift == ((diff_lonmin \div XRes) + 1) * XRes
                 n == -(shift \div XRes)
             IN  extract_zoom_regular(
                     [geometry EXCEPT !.input_lon = @ - shift], shape,
                     [c \in 1..Len(values) |->
                         values[Off4(shape, Unravel(shape, c, 1), Unravel(shape, c, 2),
                                     Unravel(shape, c, 3),
                                     shift_column(Unravel(shape, c, 4), n, X))]],
                     zoom, depth + 1)
        ELSE
        LET i == zoom_bounds(lo.i, hi.i, XRes, X)
            j == zoom_bounds(lo.j, hi.j, YRes, Y)
            shp == <<shape[1], shape[2], j.max - j.min + 1, i.max - i.min + 1>>
        IN  \* numpy.empty(shp) refuses a negative dimension
            IF shp[3] < 0 \/ shp[4] < 0 THEN fail("ValueError")
            ELSE [error |-> "", calls |-> depth, X |-> shp[4], Y |-> shp[3],
                  input_lon |-> geometry.input_lon + i.min * XRes,
                  input_lat |-> geometry.input_lat + j.min * YRes,
                  values |-> [c \in 1..Prod(shp) |->
                                 values[Off4(shape, Unravel(shp, c, 1), Unravel(shp, c, 2),
                                             j.min + Unravel(shp, c, 3),
                                             i.min + Unravel(shp, c, 4))]]]

\* the branch of extract_zoom for the other geometries: the gridpoints of the
\* flattened grid that lie in the zoom, in their order
extract_zoom_unstructured(geometry, shape, values, zoom) ==
    LET X == dimX(geometry)
        Y == dimY(geometry)
        inside(p) == /\ zoom.lonmin <= geometry.input_lon + XRes * (p % X)
                     /\ geometry.input_lon + XRes * (p % X) <= zoom.lonmax
                     /\ zoom.latmin <= geometry.input_lat + YRes * (p \div X)
                     /\ geometry.input_lat + YRes * (p \div X) <= zoom.latmax
        flat_indexes == SelectSeq([p \in 1..(X * Y) |-> p - 1], inside)
        shp == <<shape[1], shape[2], 1, Len(flat_indexes)>>
    IN  IF flat_indexes = <<>>
        THEN [error |-> "AssertionError", calls |-> 0, X |-> 0, Y |-> 0,
              input_lon |-> 0, input_lat |-> 0, values |-> <<>>]
        ELSE [error |-> "", calls |-> 0, X |-> shp[4], Y |-> 1,
              input_lon |-> geometry.input_lon, input_lat |-> geometry.input_lat,
              values |-> [c \in 1..Prod(shp) |->
                             values[Off4(shape, Unravel(shp, c, 1), Unravel(shp, c, 2),
                                         flat_indexes[Unravel(shp, c, 4) + 1] \div X,
                                         flat_indexes[Unravel(shp, c, 4) + 1] % X)]]]

\* self.extract_zoom(zoom, extra_10th): [error, calls, self, values], self
\* the new field, its data on the buffer buf, and values the data
extract_zoom(self, zoom, extra_10th, buf, hp) ==
    LET regular == self.geometry.name = "regular_lonlat"
        values == Flat(getdata(self), hp)
    IN  IF spectral(self)
        THEN [error |-> "AssertionError", calls |-> 0, self |-> NoField, values |-> <<>>]
        ELSE
        LET r == IF regular
                 THEN extract_zoom_regular(self.geometry, getdata(self).shape, values,
                                           IF extra_10th THEN zoom_extra_10th(zoom) ELSE zoom, 0)
                 ELSE extract_zoom_unstructured(self.geometry, getdata(self).shape, values, zoom)
            zoom_geom == [Geom(self.geometry.structure,
                               IF regular THEN self.geometry.name ELSE "unstructured",
                               self.geometry.vcoordinate.levels, r.Y, r.X)
                          EXCEPT !.vcoordinate = self.geometry.vcoordinate,
                                 !.position_on_horizontal_grid =
                                     self.geometry.position_on_horizontal_grid,
                                 !.geoid = self.geometry.geoid,
                                 !.input_lon = r.input_lon, !.input_lat = r.input_lat]
            zoom_field == [Field(self.fid, zoom_geom, self.validity, "None")
                           EXCEPT !.processtype = self.processtype]
            s == setdata(zoom_field,
                         Contig(get_datashape(zoom_geom, Len(self.validity)), buf))
        IN  IF r.error # "" \/ s.raised
            THEN [error |-> IF r.error # "" THEN r.error ELSE "epygramError",
                  calls |-> r.calls, self |-> NoField, values |-> <<>>]
            ELSE [error |-> "", calls |-> r.calls, self |-> s.self, values |-> r.values]

\* zoom_field = fields[1].extract_zoom(zoom, extra_10th), once
ExtractZoom(zoom, extra_10th) ==
    /\ ret.op = ""
    /\ \E r \in {extract_zoom(fields[1], zoom, extra_10th, FreeBuf(fields, <<>>), heap)} :
          /\ fields' = [fields EXCEPT ![3] = r.self]
          /\ heap' = [heap EXCEPT ![FreeBuf(fields, <<>>)] = r.values]
          /\ ret' = RetErr("extract_zoom", r.error, r.calls, <<>>,
                           << <<zoom.lonmin, zoom.lonmax>>, <<zoom.latmin, zoom.latmax>>,
                              <<IF extra_10th THEN 1 ELSE 0>> >>)
    /\ UNCHANGED <<vfield, vector, edits>>

\* a field on a grid of Y rows and X columns: regular_lonlat (global when X
\* columns make the period), lambert or reduced_gauss
InitZoom ==
    /\ \E g \in {<<"regular_lonlat", 4>>, <<"regular_lonlat", 2>>, <<"regular_lonlat", 1>>,
                 <<"lambert", 2>>, <<"reduced_gauss", 2>>},
          input_lon \in {0, 60}, sg \in {"None", "sg1"} :
          /\ sg = "sg1" => (g = <<"regular_lonlat", 2>> /\ input_lon = 0)
          /\ \E f \in {ReadField("f", [Geom("H2D", g[1], <<10>>, 2, g[2])
                                       EXCEPT !.input_lon = input_lon], <<0>>, sg, 1)} :
                /\ fields = [id \in FieldIds |-> IF id = 1 THEN f ELSE NoField]
                /\ heap = [b \in BufIds |->
                               IF b = 1 THEN Content(f.data.shape, 0) ELSE <<>>]
    /\ ret = Ret("", FALSE, <<>>, <<>>, <<>>)
    /\ vfield = NoVF
    /\ vector = NoVector
    /\ edits = 0

NextZoom ==
    \E lonmin, lonmax \in {-10, 0, 10, 20, 40, 60, 70, 80, 120},
       lat \in {<<0, 20>>, <<0, 0>>, <<10, 10>>, <<30, 50>>, <<-30, 50>>},
       extra_10th \in BOOLEAN :
        ExtractZoom([lonmin |-> lonmin, lonmax |-> lonmax,
                     latmin |-> lat[1], latmax |-> lat[2]], extra_10th)

SpecZoom == InitZoom /\ [][NextZoom]_vars

---------------------------------------------------------------------------
(* getvalue_ll.  lon, lat, level and validity are sequences: <<>> when     *)
(* omitted (None), of length 1 for a scalar; the coordinates are those of  *)
(* extract_zoom.                                                           *)

\* geometry.nearest_points(lon, lat, {'n': '1'}) for one point: the nearest
\* gridpoint, refused when it is out of the domain: [raised, i, j]
nearest_point(geometry, lon, lat) ==
    LET i == RoundDiv(lon - geometry.input_lon, XRes)
        j == RoundDiv(lat - geometry.input_lat, YRes)
    IN  [raised |-> ~(i \in 0..(dimX(geometry) - 1) /\ j \in 0..(dimY(geometry) - 1)),
         i |-> i, j |-> j]

\* geometry.nearest_points(lon, lat, {'n': '2*2'}) (w = 2) or {'n': '4*4'}
\* (w = 4) for one point: the square of w * w gridpoints around it, refused
\* when one of them is out of the domain: [raised, points]
nearest_square(geometry, lon, lat, w) ==
    LET i0 == ((lon - geometry.input_lon) \div XRes) - ((w \div 2) - 1)
        j0 == ((lat - geometry.input_lat) \div YRes) - ((w \div 2) - 1)
        points == [p \in 1..(w * w) |-> <<i0 + ((p - 1) \div w), j0 + ((p - 1) % w)>>]
    IN  [raised |-> \E p \in 1..(w * w) :
                       ~(points[p][1] \in 0..(dimX(geometry) - 1)
                         /\ points[p][2] \in 0..(dimY(geometry) - 1)),
         points |-> points]

\* the tests of getvalue_ll on its arguments and the indexes my_t and my_k:
\* [error, maxsize, my_t, my_k]
getvalue_ll_indexes(self, lon, lat, level, validity) ==
    LET ds == datashape(self.geometry)
        levels == self.geometry.vcoordinate.levels
        fail(error) == [error |-> error, maxsize |-> 0, my_t |-> <<>>, my_k |-> <<>>]
        sizes == {Len(dim) : dim \in {lon, lat, level} \ {<<>>}}
        maxsize0 == CHOOSE m \in sizes : \A n \in sizes : n <= m
        maxsize == IF Len(validity) > maxsize0 THEN Len(validity) ELSE maxsize0
        index(seq, v) == (CHOOSE t \in 1..Len(seq) :
                             seq[t] = v /\ \A u \in 1..(t - 1) : seq[u] # v) - 1
        found == SelectSeq(validity, LAMBDA v : \E t \in 1..Len(self.validity) :
                                                   self.validity[t] = v)
        t0 == [n \in 1..Len(found) |-> index(self.validity, found[n])]
        k0 == [n \in 1..Len(level) |-> index(levels, level[n])]
        repeat(x) == [n \in 1..maxsize |-> x]
    IN  IF spectral(self) THEN fail("epygramError")
        ELSE IF Len(self.validity) > 1 /\ validity = <<>> THEN fail("epygramError")
        ELSE IF ds.k /\ level = <<>> THEN fail("epygramError")
        ELSE IF (ds.j \/ ds.i) /\ (lon = <<>> \/ lat = <<>>) THEN fail("epygramError")
        \* numpy.array([]).max()
        ELSE IF sizes = {} THEN fail("ValueError")
        ELSE IF validity # <<>> /\ Len(t0) # maxsize /\ Len(t0) # 1 THEN fail("epygramError")
        ELSE IF \E a, b \in 1..Len(levels) : a # b /\ levels[a] = levels[b]
             THEN fail("epygramError")
        \* self.geometry.vcoordinate.levels.index(l)
        ELSE IF \E n \in 1..Len(level) : \A a \in 1..Len(levels) : levels[a] # level[n]
             THEN fail("ValueError")
        ELSE IF level # <<>> /\ Len(k0) # maxsize /\ Len(k0) # 1 THEN fail("epygramError")
        ELSE IF (IF lon = <<>> THEN 1 ELSE Len(lon)) # maxsize
                \/ (IF lat = <<>> THEN 1 ELSE Len(lat)) # maxsize THEN fail("epygramError")
        ELSE [error |-> "", maxsize |-> maxsize,
              my_t |-> IF validity = <<>> THEN repeat(0)
                       ELSE IF Len(t0) = maxsize THEN t0 ELSE repeat(t0[1]),
              my_k |-> IF level = <<>> THEN repeat(0)
                       ELSE IF Len(k0) = maxsize THEN k0 ELSE repeat(k0[1])]

\* the branch 'nearest' of getvalue_ll: [error, value]
getvalue_ll_nearest(self, data, lon, lat, my_k, my_t) ==
    LET np == [n \in 1..Len(lon) |-> nearest_point(self.geometry, lon[n], lat[n])]
        r == getvalue_ij(self, data, [n \in 1..Len(lon) |-> np[n].i],
                         [n \in 1..Len(lon) |-> np[n].j], my_k, my_t, TRUE)
    IN  IF \E n \in 1..Len(lon) : np[n].raised THEN [error |-> "epygramError", value |-> <<>>]
        ELSE IF r.raised THEN [error |-> "epygramError", value |-> <<>>]
        ELSE [error |-> "", value |-> r.value]

\* the branches 'linear' (w = 2) and 'cubic' (w = 4) of getvalue_ll; the value
\* of the interpolant of scipy is kept as the record of what it is fitted on
\* and of where it is evaluated: [error, value]
getvalue_ll_interp(self, data, lon, lat, my_k, my_t, maxsize, interpolation) ==
    LET w == IF interpolation = "linear" THEN 2 ELSE 4
        interp_points == [n \in 1..maxsize |->
                             nearest_square(self.geometry, lon[n], lat[n], w)]
        \* lonn, latn, my_kn, my_tn as the first loop leaves them
        lonn == lon[maxsize]
        latn == lat[maxsize]
        my_kn == my_k[maxsize]
        my_tn == my_t[maxsize]
        all(ax) == [p \in 1..(maxsize * w * w) |->
                       interp_points[((p - 1) \div (w * w)) + 1].points[((p - 1) % (w * w)) + 1][ax]]
        r == getvalue_ij(self, data, all(1), all(2), <<my_kn>>, <<my_tn>>, TRUE)
        loc(seq, n) == SubSeq(seq, (n - 1) * w * w + 1, n * w * w)
    IN  IF \E n \in 1..maxsize : interp_points[n].raised
        THEN [error |-> "epygramError", value |-> <<>>]
        ELSE IF r.raised THEN [error |-> "epygramError", value |-> <<>>]
        ELSE [error |-> "",
              value |-> [n \in 1..maxsize |->
                            [kind |-> interpolation,
                             loc_lons |-> [p \in 1..(w * w) |->
                                 self.geometry.input_lon + XRes * loc(all(1), n)[p]],
                             loc_lats |-> [p \in 1..(w * w) |->
                                 self.geometry.input_lat + YRes * loc(all(2), n)[p]],
                             loc_values |-> loc(r.value, n),
                             lon |-> lonn, lat |-> latn]]]

\* what getvalue_ll does of an interpolation that is neither 'nearest' nor
\* 'linear' nor 'cubic': no branch is taken, and value is read unassigned
getvalue_ll_else(interpolation) == "UnboundLocalError"

\* D3CommonField.getvalue_ll: [error, value]; data is getdata(d4=True), as
\* [shape, flat]
getvalue_ll(self, data, lon, lat, level, validity, interpolation) ==
    LET ix == getvalue_ll_indexes(self, lon, lat, level, validity)
    IN  IF ix.error # "" THEN [error |-> ix.error, value |-> <<>>]
        ELSE IF interpolation = "nearest"
        THEN getvalue_ll_nearest(self, data, lon, lat, ix.my_k, ix.my_t)
        ELSE IF interpolation \in {"linear", "cubic"}
        THEN getvalue_ll_interp(self, data, lon, lat, ix.my_k, ix.my_t, ix.maxsize,
                                interpolation)
        ELSE [error |-> getvalue_ll_else(interpolation), value |-> <<>>]

GetValueLL(lon, lat, level, validity, interpolation) ==
    /\ ret.op = ""
    /\ \E r \in {getvalue_ll(fields[1], [shape |-> getdata(fields[1]).shape,
                                         flat |-> Flat(getdata(fields[1]), heap)],
                             lon, lat, level, validity, interpolation)} :
          ret' = RetErr("getvalue_ll", r.error, 0, r.value,
                        <<lon, lat, level, validity, <<interpolation>> >>)
    /\ UNCHANGED <<fields, heap, vfield, vector, edits>>

\* a field on a grid of 4 by 4 gridpoints, with one or two levels and one or
\* two validities, gridpoint or spectral
InitLL ==
    /\ \E levels \in {<<10>>, <<10, 20>>}, validity \in Validities, sg \in {"None", "sg1"} :
          /\ sg = "sg1" => (levels = <<10>> /\ validity = <<0>>)
          /\ \E f \in {ReadField("f", Geom(IF Len(levels) = 1 THEN "H2D" ELSE "3D",
                                           "regular_lonlat", levels, 4, 4),
                                 validity, sg, 1)} :
                /\ fields = [id \in FieldIds |-> IF id = 1 THEN f ELSE NoField]
                /\ heap = [b \in BufIds |->
                               IF b = 1 THEN Content(f.data.shape, 0) ELSE <<>>]
    /\ ret = Ret("", FALSE, <<>>, <<>>, <<>>)
    /\ vfield = NoVF
    /\ vector = NoVector
    /\ edits = 0

NextLL ==
    \E lon \in {<<>>, <<0>>, <<30>>, <<20, 30>>, <<90>>},
       lat \in {<<0>>, <<30>>, <<20, 30>>},
       level \in {<<>>, <<10>>, <<20, 10>>, <<30>>},
       validity \in {<<>>, <<0>>, <<6, 0>>, <<12>>},
       interpolation \in {"nearest", "linear", "cubic", "quadratic"} :
        GetValueLL(lon, lat, level, validity, interpolation)

SpecLL == InitLL /\ [][NextLL]_vars

---------------------------------------------------------------------------
(* Operations along the time axis: decumulate and time_smooth *)

\* the value numpy gives to the mean of no value at all
NaN == -(10 ^ 6)

RECURSIVE SumSeq(_)
SumSeq(s) == IF s = <<>> THEN 0 ELSE Head(s) + SumSeq(Tail(s))

\* tinf and tsup of time_smooth
time_smooth_span(length, window) ==
    IF window = "center" THEN [tinf |-> length \div 2, tsup |-> length \div 2]
    ELSE IF window = "left" THEN [tinf |-> length, tsup |-> 0]
    ELSE [tinf |-> 0, tsup |-> length]

\* the values old[t9:t1, ...] at the place c of a time slice of n values
time_window(old, n, t9, t1, c) == [u \in 1..(t1 - t9) |-> old[(t9 + u - 1) * n + c]]

\* old[t9:t1, ...].mean(axis=0) at the place c
time_mean(old, n, t9, t1, c) ==
    LET w == time_window(old, n, t9, t1, c)
    IN  IF t1 <= t9 \/ \E u \in 1..Len(w) : w[u] = NaN THEN NaN
        ELSE SumSeq(w) \div Len(w)

\* the values of the data after time_smooth, in C order; n values per validity
time_smooth_data(old, n, T, length, window) ==
    LET span == time_smooth_span(length, window)
        t9(t) == IF t - span.tinf < 0 THEN 0 ELSE t - span.tinf
        t1(t) == IF t + span.tsup > T THEN T ELSE t + span.tsup
    IN  [c \in 1..Len(old) |->
            time_mean(old, n, t9((c - 1) \div n), t1((c - 1) \div n), ((c - 1) % n) + 1)]

\* TRUE when the means of time_smooth are integers
Averageable(old, n, T, length, window) ==
    LET span == time_smooth_span(length, window)
    IN  \A c \in 1..n, t \in 0..(T - 1) :
           LET t9 == IF t - span.tinf < 0 THEN 0 ELSE t - span.tinf
               t1 == IF t + span.tsup > T THEN T ELSE t + span.tsup
           IN  t1 > t9 => SumSeq(time_window(old, n, t9, t1, c)) % (t1 - t9) = 0

\* the smoothed values go to an array of their own (copy.deepcopy), which
\* setdata gives to the field
TimeSmooth(f, length, window) ==
    LET self == fields[f]
        T == Len(self.validity)
        old == Flat(getdata(self), heap)
        b == FreeBuf(fields, <<>>)
    IN  /\ self # NoField
        /\ T > 1 => Averageable(old, Len(old) \div T, T, length, window)
        /\ Edit(T > 1)
        /\ \E r \in {setdata(self, Contig(getdata(self).shape, b))},
              new \in {IF T > 1 THEN time_smooth_data(old, Len(old) \div T, T, length, window)
                       ELSE <<>>} :
              /\ fields' = [fields EXCEPT ![f] = IF T > 1 THEN r.self ELSE self]
              /\ heap' = IF T > 1 THEN Collect(fields', <<>>, [heap EXCEPT ![b] = new])
                         ELSE heap
              /\ ret' = RetErr("time_smooth",
                               IF T <= 1 THEN "AssertionError"
                               ELSE IF r.raised THEN "epygramError" ELSE "",
                               0, <<>>, << <<length>>, <<window>> >>)
        /\ UNCHANGED <<vfield, vector>>

\* values cumulated along the time axis: cell n holds 6 * (seed + n * n)
Cumulated(shape, seed) == [n \in 1..Prod(shape) |-> 6 * (seed + n * n)]

TimeValidities == { <<0>>, <<0, 6>>, <<0, 6, 12>> }

InitTime ==
    /\ \E geometry \in Geometries, validity \in TimeValidities, sg \in {"None", "sg1"},
          seed \in {0, 1} :
          \E f \in {ReadField("f", geometry, validity, sg, 1)} :
             /\ fields = [id \in FieldIds |-> IF id = 1 THEN f ELSE NoField]
             /\ heap = [b \in BufIds |->
                            IF b = 1 THEN Cumulated(f.data.shape, seed) ELSE <<>>]
    /\ ret = Ret("", FALSE, <<>>, <<>>, <<>>)
    /\ vfield = NoVF
    /\ vector = NoVector
    /\ edits = 0

NextTime ==
    \/ \E center \in BOOLEAN : Decumulate(1, center)
    \/ \E length \in 0..3, window \in {"center", "left", "right"} : TimeSmooth(1, length, window)

SpecTime == InitTime /\ [][NextTime]_vars

---------------------------------------------------------------------------
(* extract_subdomain.  An azimuth is counted in halves of a degree; the    *)
(* vertical grid of a geometry is named, "None" for {}, and                *)
(* len_gridlevels gives the length of its 'gridlevels'.                    *)

\* len(vcoordinate.grid['gridlevels'])
len_gridlevels(grid) == IF grid = "gridlevels4" THEN 4 ELSE 0

\* list.remove(v): the list without the first of its elements equal to v
list_remove(s, v) ==
    LET p == CHOOSE q \in 1..Len(s) : s[q] = v /\ \A u \in 1..(q - 1) : s[u] # v
    IN  SubSeq(s, 1, p - 1) \o SubSeq(s, p + 1, Len(s))

\* for level in levels: if level < 1 or level > n - 1: levels.remove(level);
\* the loop goes by position in the list it removes from
RECURSIVE remove_extralevels(_, _, _)
remove_extralevels(levels, n, pos) ==
    IF pos > Len(levels) THEN levels
    ELSE IF levels[pos] < 1 \/ levels[pos] > n - 1
         THEN remove_extralevels(list_remove(levels, levels[pos]), n, pos + 1)
         ELSE remove_extralevels(levels, n, pos + 1)

\* kwargs_vcoord of extract_subdomain and the tests of the vertical
\* coordinate of the target geometry: [error, vcoordinate]
extract_subdomain_vcoordinate(self, geometry, exclude_extralevels) ==
    LET mine == self.geometry.vcoordinate
        target == geometry.vcoordinate
        tfs == mine.typeoffirstfixedsurface
        levels == IF tfs = 118 /\ exclude_extralevels
                  THEN remove_extralevels(mine.levels, len_gridlevels(mine.grid), 1)
                  ELSE mine.levels
        grid == IF tfs \in {118, 119} THEN mine.grid ELSE "None"
        fail(error) == [error |-> error, vcoordinate |-> mine]
    IN  IF tfs \notin {119, 118, 100, 103, 109, 1, 106, 255, 160, 200}
        THEN fail("NotImplementedError")
        ELSE IF target.typeoffirstfixedsurface \notin {255, tfs} THEN fail("epygramError")
        ELSE IF target.position_on_grid \notin {"None", "__unknown__", mine.position_on_grid}
        THEN fail("epygramError")
        \* kwargs_vcoord['grid'] of a coordinate that is neither 118 nor 119
        ELSE IF target.grid # "None" /\ tfs \notin {118, 119} THEN fail("KeyError")
        ELSE IF target.grid # "None" /\ target.grid # grid THEN fail("epygramError")
        ELSE IF \E n \in 1..Len(target.levels) :
                   \A m \in 1..Len(levels) : levels[m] # target.levels[n]
        THEN fail("epygramError")
        ELSE [error |-> "",
              vcoordinate |-> [levels |-> IF target.levels # <<>> THEN target.levels
                                          ELSE levels,
                               typeoffirstfixedsurface |-> tfs,
                               position_on_grid |-> mine.position_on_grid,
                               grid |-> grid]]

\* geometry.get_lonlat_grid(), stretched: the gridpoints row after row
get_lonlat_grid(geometry) ==
    LET X == dimX(geometry)
        P == X * dimY(geometry)
    IN  [lons |-> [p \in 1..P |-> geometry.input_lon + XRes * ((p - 1) % X)],
         lats |-> [p \in 1..P |-> geometry.input_lat + YRes * ((p - 1) \div X)]]

\* geometry.point_is_inside_domain_ll(lon, lat)
point_is_inside_domain_ll(geometry, lon, lat) ==
    /\ geometry.input_lon <= lon
    /\ lon <= geometry.input_lon + XRes * (dimX(geometry) - 1)
    /\ geometry.input_lat <= lat
    /\ lat <= geometry.input_lat + YRes * (dimY(geometry) - 1)

\* the direction extract_subdomain names for an azimuth az: "" when no branch
\* of the chain takes it
compass_direction(az) ==
    IF -45 < az /\ az <= 45 THEN "N"
    ELSE IF -155 < az /\ az <= -45 THEN "NW"
    ELSE IF -225 < az /\ az <= -155 THEN "W"
    ELSE IF -315 < az /\ az <= -225 THEN "SW"
    ELSE IF (-361 <= az /\ az <= -315) \/ (315 < az /\ az <= 360) THEN "S"
    ELSE IF 45 < az /\ az <= 155 THEN "NE"
    ELSE IF 155 < az /\ az <= 225 THEN "E"
    ELSE IF 225 < az /\ az <= 315 THEN "SE"
    ELSE ""

\* the comment of extract_subdomain: the direction for one point and
\* 'nearest', the kind of interpolation for one point otherwise, None for
\* several points: [error, comment]
extract_subdomain_comment(interpolation, size, az) ==
    IF interpolation = "nearest"
    THEN IF size # 1 THEN [error |-> "", comment |-> "None"]
         ELSE IF compass_direction(az) = "" THEN [error |-> "UnboundLocalError", comment |-> "None"]
         ELSE [error |-> "", comment |-> compass_direction(az)]
    ELSE IF interpolation \in {"linear", "cubic"}
    THEN [error |-> "", comment |-> IF size = 1 THEN interpolation ELSE "None"]
    ELSE [error |-> "NotImplementedError", comment |-> "None"]

\* the loop of extract_subdomain on t and k: the values of the new data in C
\* order, or the error of the first getvalue_ll that fails: [error, values]
extract_subdomain_values(self, data, levels, lons, lats, interpolation) ==
    LET K == Len(levels)
        P == Len(lons)
        N == Len(self.validity) * K
        extracted == [n \in 1..N |->
                         getvalue_ll(self, data, lons, lats, <<levels[((n - 1) % K) + 1]>>,
                                     <<self.validity[((n - 1) \div K) + 1]>>, interpolation)]
        failed == {n \in 1..N : extracted[n].error # ""}
    IN  IF failed # {}
        THEN [error |-> extracted[CHOOSE n \in failed : \A m \in failed : n <= m].error,
              values |-> <<>>]
        ELSE [error |-> "",
              values |-> [c \in 1..(N * P) |-> extracted[((c - 1) \div P) + 1].value[((c - 1) % P) + 1]]]

\* D3CommonField.extract_subdomain with getdata=True: [error, self, values,
\* comment]; az is what geometry.azimuth gives from the point asked to the
\* nearest gridpoint
extract_subdomain(self, geometry, interpolation, exclude_extralevels, az, buf, hp) ==
    LET fail(error) == [error |-> error, self |-> NoField, values |-> <<>>, comment |-> "None"]
        v == extract_subdomain_vcoordinate(self, geometry, exclude_extralevels)
        newgeometry == [geometry EXCEPT !.vcoordinate = v.vcoordinate,
                                        !.position_on_horizontal_grid = "center",
                                        !.projection = IF projected_geometry(geometry)
                                                          \/ geometry.name = "academic"
                                                       THEN geometry.projection ELSE "None"]
        ll == get_lonlat_grid(newgeometry)
        c == extract_subdomain_comment(interpolation, Len(ll.lons), az)
        data == [shape |-> getdata(self).shape, flat |-> Flat(getdata(self), hp)]
        x == extract_subdomain_values(self, data, v.vcoordinate.levels, ll.lons, ll.lats,
                                      interpolation)
        newfield == [Field(self.fid, newgeometry, self.validity, "None")
                     EXCEPT !.processtype = self.processtype]
        s == setdata(newfield, Contig(get_datashape(newgeometry, Len(self.validity)), buf))
    IN  IF v.error # "" THEN fail(v.error)
        ELSE IF geometry.position_on_horizontal_grid \notin {"None", "__unknown__", "center"}
        THEN fail("epygramError")
        ELSE IF \E p \in 1..Len(ll.lons) :
                   ~point_is_inside_domain_ll(self.geometry, ll.lons[p], ll.lats[p])
        THEN fail("ValueError")
        ELSE IF c.error # "" THEN fail(c.error)
        ELSE IF x.error # "" THEN fail(x.error)
        ELSE IF s.raised THEN fail("AssertionError")
        ELSE [error |-> "", self |-> s.self, values |-> x.values, comment |-> c.comment]

\* the azimuths geometry.azimuth may give, in halves of a degree: the
\* bearings of the eight directions, the bounds of the sectors and of the
\* tests, and values between them
Azimuths ==
    LET pos == {0, 44, 45, 46, 90, 134, 135, 136, 145, 155, 156, 180, 225, 226, 270, 315,
                316, 360}
    IN  pos \cup {-az : az \in pos}

\* fields[3] = fields[1].extract_subdomain(geometry, interpolation,
\* exclude_extralevels=...), once; the azimuth is asked for one point and
\* 'nearest' only
ExtractSubdomain(geometry, interpolation, exclude_extralevels, az) ==
    /\ ret.op = ""
    /\ (interpolation # "nearest" \/ dimX(geometry) * dimY(geometry) # 1) => az = 0
    /\ \E r \in {extract_subdomain(fields[1], geometry, interpolation, exclude_extralevels,
                                   az, FreeBuf(fields, <<>>), heap)} :
          /\ fields' = [fields EXCEPT ![3] = r.self]
          /\ heap' = [heap EXCEPT ![FreeBuf(fields, <<>>)] = r.values]
          /\ ret' = RetErr("extract_subdomain", r.error, 0, <<r.comment>>,
                           <<geometry.vcoordinate.levels,
                             <<IF exclude_extralevels THEN 1 ELSE 0>>,
                             <<interpolation>>, <<az>> >>)
    /\ UNCHANGED <<vfield, vector, edits>>

\* a field on a grid of 2 by 2 gridpoints: on hybrid-pressure levels (118)
\* with a vertical grid of 4 'gridlevels', the levels below 1 and above 3
\* being the extra ones, or on pressure levels (100)
InitSubdomain ==
    /\ \E src \in {<<118, <<1, 2, 3>> >>, <<118, <<0, 1, 2, 3, 4>> >>, <<118, <<4, 5, 1, 2>> >>,
                   <<118, <<0, -1, 2>> >>, <<118, <<2, 0>> >>, <<100, <<1, 2>> >>},
          validity \in Validities, sg \in {"None", "sg1"} :
          /\ (validity # <<0>> \/ sg = "sg1") => src = <<118, <<1, 2, 3>> >>
          /\ \E f \in {ReadField("f", [Geom("3D", "regular_lonlat", src[2], 2, 2)
                                       EXCEPT !.vcoordinate.typeoffirstfixedsurface = src[1],
                                              !.vcoordinate.grid =
                                                  IF src[1] = 118 THEN "gridlevels4" ELSE "None"],
                                 validity, sg, 1)} :
                /\ fields = [id \in FieldIds |-> IF id = 1 THEN f ELSE NoField]
                /\ heap = [b \in BufIds |->
                               IF b = 1 THEN Content(f.data.shape, 0) ELSE <<>>]
    /\ ret = Ret("", FALSE, <<>>, <<>>, <<>>)
    /\ vfield = NoVF
    /\ vector = NoVector
    /\ edits = 0

\* the target is a profile at one point or a row of two points, with the
\* levels it asks, the vertical coordinate it names (255 for none)
NextSubdomain ==
    \E at \in {<<0, 0, 1>>, <<10, 10, 1>>, <<90, 0, 1>>, <<0, 0, 2>>},
       levels \in {<<>>, <<2>>, <<9>>}, tfs \in {255, 100},
       interpolation \in {"nearest", "linear", "quadratic"},
       exclude_extralevels \in BOOLEAN, az \in Azimuths :
        ExtractSubdomain([Geom("V1D", "unstructured", levels, 1, at[3])
                          EXCEPT !.input_lon = at[1], !.input_lat = at[2],
                                 !.vcoordinate.typeoffirstfixedsurface = tfs,
                                 !.vcoordinate.position_on_grid = "__unknown__"],
                         interpolation, exclude_extralevels, az)

SpecSubdomain == InitSubdomain /\ [][NextSubdomain]_vars

---------------------------------------------------------------------------
(* Claims on the life of one field *)

\* C1: the data of a field, asked in 4D form, has the shape (len(validity),
\* len(levels), Y, X) when the field is gridpoint and (len(validity), len(levels),
\* n_coeffs) when it is spectral, after any sequence of setdata, extend,
\* decumulate, global_shift_center, sp2gp and gp2sp.
CanonicalShape ==
    LET f == fields[1]
        shape == getdata(f).shape
    IN  IF spectral(f)
        THEN /\ Len(shape) = 3
             /\ shape[1] = Len(f.validity)
             /\ shape[2] = Len(f.geometry.vcoordinate.levels)
        ELSE shape = <<Len(f.validity), Len(f.geometry.vcoordinate.levels),
                       dimY(f.geometry), dimX(f.geometry)>>

\* a gridpoint field of two levels, grown to three validities by extend
CanonicalShapeWitness ==
    /\ ret.op = "extend" /\ ~ret.raised /\ ~spectral(fields[1])
    /\ getdata(fields[1]).shape = <<3, 2, 2, 2>>

\* the step leaves the field as it was: its attributes, the array it holds and
\* the values in it
FieldUntouched ==
    /\ fields' = fields
    /\ Flat(getdata(fields'[1]), heap') = Flat(getdata(fields[1]), heap)

\* C2: a sp2gp or gp2sp that raises part-way leaves spectral_geometry and the
\* data as they were before the call.
TransformAllOrNothing ==
    [][(ret'.op \in {"sp2gp", "gp2sp"} /\ ret'.raised) => FieldUntouched]_vars

\* a gridpoint field whose gp2sp raised
TransformAllOrNothingWitness ==
    ret.op = "gp2sp" /\ ret.raised /\ ~spectral(fields[1]) /\ fields[1].data # NoData

\* the shape of squeezed data that setdata expects: the sizes of the axes that
\* are present, among t (several validities), k, j, i (datashape)
SqueezedShape(self) ==
    LET ds == datashape(self.geometry)
        one(b, n) == IF b THEN <<n>> ELSE <<>>
    IN  one(Len(self.validity) > 1, Len(self.validity))
        \o one(ds.k, Len(self.geometry.vcoordinate.levels))
        \o one(~spectral(self) /\ ds.j, dimY(self.geometry))
        \o one(~spectral(self) /\ ds.i, dimX(self.geometry))

\* TRUE when data of this shape has neither the 4D form nor the squeezed form of
\* the field (a spectral field takes any number of coefficients as last axis)
Mismatch(self, shape) ==
    IF spectral(self)
    THEN \/ shape = <<>>
         \/ /\ shape # <<Len(self.validity), Len(self.geometry.vcoordinate.levels), shape[Len(shape)]>>
            /\ shape # SqueezedShape(self) \o <<shape[Len(shape)]>>
    ELSE /\ shape # <<Len(self.validity), Len(self.geometry.vcoordinate.levels),
                      dimY(self.geometry), dimX(self.geometry)>>
         /\ shape # SqueezedShape(self)

\* C3 as stated: setdata raises on any data whose rank or sizes do not match, and
\* leaves the field as it was.
SetdataRejectsMismatch ==
    [][(ret'.op = "setdata" /\ Mismatch(fields[1], ret'.args[1]))
          => (ret'.raised /\ FieldUntouched)]_vars

\* the fields for which the rank check waived for data of shape (1,) lets
\* through data that is not of their rank: one validity, and either gridpoint
\* with none of the axes k, j, i, or spectral with a single level
TakesOneElement(self) ==
    /\ Len(self.validity) = 1
    /\ IF spectral(self) THEN Len(self.geometry.vcoordinate.levels) = 1
       ELSE setdata_dimensions(self) = 0

\* C3, amended: setdata raises on data whose rank or sizes do not match, and
\* leaves the field as it was, except for a one-element array of shape (1,),
\* which is taken by a field of one validity that is gridpoint with no axis
\* (a Point field) or spectral with a single level.
SetdataRejectsMismatchButOne ==
    [][(/\ ret'.op = "setdata" /\ Mismatch(fields[1], ret'.args[1])
        /\ ~(ret'.args[1] = <<1>> /\ TakesOneElement(fields[1])))
          => (ret'.raised /\ FieldUntouched)]_vars

\* a profile of two levels whose setdata raised on data of shape (2, 2)
SetdataRejectsWitness ==
    /\ ret.op = "setdata" /\ ret.raised /\ edits = 1
    /\ ret.args[1] = <<2, 2>> /\ getdata(fields[1]).shape = <<1, 2, 1, 1>>

\* C4 as stated: spectral is true exactly when spectral_geometry is not None.
SpectralIffNotNone ==
    spectral(fields[1]) <=> fields[1].spectral_geometry # "None"

\* C4, amended: spectral is true exactly when spectral_geometry is a spectral
\* geometry: neither None nor the placeholder '__unknown__'.
SpectralIffGeometry ==
    spectral(fields[1]) <=> fields[1].spectral_geometry \in SpectralGeometries

\* a field built without spectral geometry, after a setdata
SpectralIffGeometryWitness ==
    fields[1].spectral_geometry = "__unknown__" /\ ret.op = "setdata" /\ ~ret.raised

\* C5 as stated: gp2sp on a spectral field raises, and so does
\* compute_xy_spderivatives on a gridpoint field.
WrongStateRaises ==
    [][/\ (ret'.op = "gp2sp" /\ spectral(fields[1])) => ret'.raised
       /\ (ret'.op = "compute_xy_spderivatives" /\ ~spectral(fields[1])) => ret'.raised]_vars

\* C5, amended: gp2sp on a spectral field does nothing and raises nothing;
\* compute_xy_spderivatives on a gridpoint field raises.
WrongStateGp2spNoop ==
    [][/\ (ret'.op = "gp2sp" /\ spectral(fields[1]))
            => (~ret'.raised /\ FieldUntouched)
       /\ (ret'.op = "compute_xy_spderivatives" /\ ~spectral(fields[1]))
            => (ret'.raised /\ ret'.out = <<>> /\ FieldUntouched)]_vars

\* a spectral field on which gp2sp was called
WrongStateWitness ==
    ret.op = "gp2sp" /\ ~ret.raised /\ fields[1].spectral_geometry = "sg1" /\ edits = 0

---------------------------------------------------------------------------
(* Claims on getvalue_ij *)

\* the index that the n-th point asked has on an axis: 0 when the argument is
\* omitted, the scalar when it has one element
Arg(a, n) == IF a = <<>> THEN 0 ELSE IF Len(a) = 1 THEN a[1] ELSE a[n]

\* getdata(d4=True) of the field that getvalue_ij was called on: [shape, flat]
Data4 ==
    IF vfield = NoVF
    THEN [shape |-> getdata(fields[1]).shape, flat |-> Flat(getdata(fields[1]), heap)]
    ELSE vgetdata(vfield, vlevels(vfield, fields, heap))

\* C6: what getvalue_ij(i, j, k, t) returns on a D3Field or a D3VirtualField is
\* getdata(d4=True)[t, k, j, i], point by point for array arguments.
GetvalueIsData ==
    (ret.op = "getvalue_ij" /\ ~ret.raised) =>
        \A n \in 1..Len(ret.value) :
            ret.value[n] = Data4.flat[Off4(Data4.shape, Arg(ret.args[4], n), Arg(ret.args[3], n),
                                           Arg(ret.args[2], n), Arg(ret.args[1], n))]

\* two points of two levels read on a virtual field that replays gp2sp then sp2gp
\* on the fields it reads
GetvalueIsDataWitness ==
    /\ ret.op = "getvalue_ij" /\ ~ret.raised
    /\ vfield.mode = "resource" /\ Len(vfield.spgpOpList) = 2
    /\ ret.args = << <<0, 1>>, <<0, 1>>, <<0, 1>>, <<1>> >>

\* the geometry and the validity of the field that getvalue_ij was called on
CalledGeometry == IF vfield = NoVF THEN fields[1].geometry ELSE vfield.geometry

CalledValidity == IF vfield = NoVF THEN fields[1].validity ELSE vfield.validity

\* an index is omitted for an axis that the field has
Omitted(i, j, k, t) ==
    \/ Len(CalledValidity) > 1 /\ t = <<>>
    \/ datashape(CalledGeometry).k /\ k = <<>>
    \/ datashape(CalledGeometry).j /\ j = <<>>
    \/ datashape(CalledGeometry).i /\ i = <<>>

MaxLen == getvalue_ij_maxsize(ret.args[1], ret.args[2], ret.args[3], ret.args[4])

\* the call gives every index that the field needs, all within the data, which
\* is gridpoint
WellIndexed ==
    /\ ret.op = "getvalue_ij"
    /\ ~Omitted(ret.args[1], ret.args[2], ret.args[3], ret.args[4])
    /\ MaxLen > 0
    /\ Len(Data4.shape) = 4
    /\ \A ax \in 1..4 : \A n \in 1..Len(ret.args[5 - ax]) :
          ret.args[5 - ax][n] \in 0..(Data4.shape[ax] - 1)

\* C8 as stated: the output has the largest length of the arguments, any
\* argument of length 1 is broadcast, and any other length that is not the
\* largest makes the call fail.
BroadcastAny ==
    /\ (WellIndexed /\ \A a \in 1..4 : Len(ret.args[a]) \in {0, 1, MaxLen})
          => (~ret.raised /\ Len(ret.value) = MaxLen)
    /\ (ret.op = "getvalue_ij" /\ \E a \in 1..4 : Len(ret.args[a]) \notin {0, 1, MaxLen})
          => ret.raised

\* C8, amended: the output has the largest length of the arguments; only t and k
\* of length 1 are broadcast; i or j of another length than the largest, 1
\* included, and t or k of a length that is neither 1 nor the largest, make the
\* call fail.
BroadcastTK ==
    /\ (/\ WellIndexed
        /\ \A a \in {3, 4} : Len(ret.args[a]) \in {0, 1, MaxLen}
        /\ \A a \in {1, 2} : Len(ret.args[a]) \in {0, MaxLen})
          => (~ret.raised /\ Len(ret.value) = MaxLen)
    /\ (/\ ret.op = "getvalue_ij"
        /\ \/ \E a \in {3, 4} : Len(ret.args[a]) \notin {0, 1, MaxLen}
           \/ \E a \in {1, 2} : Len(ret.args[a]) \notin {0, MaxLen})
          => ret.raised

\* three points read on a field with a scalar t and a scalar k
BroadcastTKWitness ==
    /\ ret.op = "getvalue_ij" /\ ~ret.raised /\ vfield = NoVF
    /\ ret.args = << <<1, 0, 1>>, <<1, 0, 1>>, <<1>>, <<1>> >>
    /\ Len(ret.value) = 3

---------------------------------------------------------------------------
(* Claims on derived fields *)

\* C9: a field derived from a source by extract_subarray, getlevel, getvalidity
\* or arithmetic shares no buffer with it: when the caller writes into the data
\* of the derived field the values of the source stay as they were, and when
\* the caller writes into the data of the source the values of the derived
\* field stay as they were.
DerivedIsCopy ==
    [][(ret'.op = "write" /\ fields[3] # NoField) =>
          \A g \in {1, 3} :
              ret'.args[1] # <<g>> =>
                  Flat(getdata(fields'[g]), heap') = Flat(getdata(fields[g]), heap)]_vars

\* the four attributes that the operands of an arithmetic operation must share
SameOperands(self, other) ==
    /\ spectral(self) = spectral(other)
    /\ self.geometry.dimensions = other.geometry.dimensions
    /\ self.spectral_geometry = other.spectral_geometry
    /\ Len(self.validity) = Len(other.validity)

\* C10: an arithmetic operation (+, -, *, /, either order) between two fields
\* that differ in spectral-ness, geometry.dimensions, spectral_geometry or
\* len(validity) fails and produces no field; so does the sum of two fields of
\* different gridpoint dimensions.
OperandsChecked ==
    [][(ret'.op \in ArithOps /\ ~SameOperands(fields[1], fields[2]))
          => (ret'.raised /\ ret'.out = <<>> /\ fields' = fields)]_vars

\* the sum of two gridpoint fields that differ in their dimensions only, and
\* whose data numpy could broadcast, has failed
OperandsCheckedWitness ==
    /\ ret.op = "add" /\ ret.raised /\ fields[3] = NoField
    /\ fields[1].geometry.dimensions = [X |-> 2, Y |-> 2]
    /\ fields[2].geometry.dimensions = [X |-> 2, Y |-> 1]
    /\ fields[1].spectral_geometry = "None" /\ fields[2].spectral_geometry = "None"
    /\ Len(fields[1].validity) = Len(fields[2].validity)
    /\ fields[1].geometry.vcoordinate.levels = <<10, 20>>

---------------------------------------------------------------------------
(* Claims on the construction of a virtual field *)

\* the levels of a stored field
StoredLevels(id) == fields[id].geometry.vcoordinate.levels

\* two stored fields report the same level
DuplicateLevel ==
    \E a, b \in FieldIds :
        a < b /\ StoredLevels(a) # <<>> /\ StoredLevels(b) # <<>>
              /\ StoredLevels(a)[1] = StoredLevels(b)[1]

\* a stored field has more or fewer than one level
NotOneLevel == \E a \in FieldIds : Len(StoredLevels(a)) # 1

\* two stored fields have the same fid
DuplicateFid == \E a, b \in FieldIds : a < b /\ fields[a].fid = fields[b].fid

\* no virtual field was built; the construction, if tried, has failed
NotBuilt == vfield = NoVF /\ (ret.op = "init" => ret.raised)

\* C11: the construction of a D3VirtualField fails if two constituents report
\* the same level, whatever their order, if a constituent has more or fewer than
\* one level, or if two constituents have the same fid.
ConstructionRejects ==
    (DuplicateLevel \/ NotOneLevel \/ DuplicateFid) => NotBuilt

\* the construction on a resource was refused for three fields that agree on
\* everything and have one level each and three fids, the second and the third
\* reporting the same level
ConstructionRejectsWitness ==
    /\ ret.op = "init" /\ ret.raised /\ ret.args = << <<>>, <<1, 2, 3>> >>
    /\ <<StoredLevels(1), StoredLevels(2), StoredLevels(3)>> = << <<20>>, <<10>>, <<10>> >>
    /\ ~DuplicateFid
    /\ \A id \in {2, 3} : [fields[id] EXCEPT !.fid = "a", !.data = NoData,
                                             !.geometry.vcoordinate.levels = <<20>>]
                          = [fields[1] EXCEPT !.data = NoData]

\* a stored field differs from the first one in an attribute that the
\* constituents must share
Disagree(id) ==
    LET mine == fields[1].geometry
        its == fields[id].geometry
    IN  \/ fields[1].structure # fields[id].structure
        \/ mine.structure # its.structure \/ mine.name # its.name \/ mine.grid # its.grid
        \/ mine.dimensions # its.dimensions
        \/ mine.position_on_horizontal_grid # its.position_on_horizontal_grid
        \/ mine.projection # its.projection
        \/ mine.geoid # its.geoid
        \/ mine.vcoordinate.typeoffirstfixedsurface # its.vcoordinate.typeoffirstfixedsurface
        \/ mine.vcoordinate.position_on_grid # its.vcoordinate.position_on_grid
        \/ mine.vcoordinate.grid # its.vcoordinate.grid
        \/ fields[1].validity # fields[id].validity
        \/ fields[1].spectral_geometry # fields[id].spectral_geometry
        \/ fields[1].processtype # fields[id].processtype

\* C12: the construction of a D3VirtualField fails whenever a constituent
\* differs from the others in structure, horizontal geometry, projection, geoid,
\* vertical-coordinate type or grid, validity, spectral geometry or processtype;
\* the constituents of a virtual field that was built agree on all of these.
ConstituentsAgree ==
    (\E id \in {2, 3} : Disagree(id)) => NotBuilt

\* C13: the levels of a D3VirtualField built from constituents with scalar
\* levels are in increasing order, whatever the order of the constituents, and
\* the constituent that _fidList[k] names is the one whose level is levels[k].
LevelsSorted ==
    vfield # NoVF =>
        LET levels == vfield.geometry.vcoordinate.levels
        IN  /\ Len(levels) = 3 /\ Len(vfield.fidList) = 3
            /\ \A a, b \in 1..3 : a < b => levels[a] < levels[b]
            /\ \A k \in 1..3 : \E id \in FieldIds :
                  /\ fields[id].fid = vfield.fidList[k]
                  /\ StoredLevels(id) = <<levels[k]>>
                  /\ \A other \in FieldIds \ {id} : fields[other].fid # vfield.fidList[k]

\* a virtual field built on a resource that stores the levels 30, 10, 20 in
\* this order
LevelsSortedWitness ==
    /\ vfield.mode = "resource"
    /\ <<StoredLevels(1), StoredLevels(2), StoredLevels(3)>> = << <<30>>, <<10>>, <<20>> >>

---------------------------------------------------------------------------
(* Claims on the reads of a resource-backed virtual field *)

\* the level that the last call of getlevel asked for, by value or by index
RequestedLevel(r, vf) ==
    IF r.args[1] # <<>> THEN r.args[1][1]
    ELSE vf.geometry.vcoordinate.levels[((r.args[2][1] + 3) % 3) + 1]

\* C14: on a resource-backed D3VirtualField every readfield of the construction
\* is a read of metadata (getdata=False); data is read only inside getlevel,
\* getdata and getvalue_ij, and a getlevel that returns has made one read, with
\* data, of the field of the level asked, whatever was read before.
ReadsAreLazy ==
    /\ ret.op = "init" => \A n \in 1..Len(ret.reads) : ~ret.reads[n].getdata
    /\ \A n \in 1..Len(ret.reads) :
          ret.reads[n].getdata => ret.op \in {"getlevel", "getdata", "getvalue_ij"}
    /\ (ret.op = "getlevel" /\ ~ret.raised /\ vfield.mode = "resource") =>
          /\ Len(ret.reads) = 1 /\ ret.reads[1].getdata
          /\ \E id \in FieldIds : /\ fields[id].fid = ret.reads[1].fid
                                  /\ StoredLevels(id) = <<RequestedLevel(ret, vfield)>>

\* the last level of a virtual field built on a resource was read, by index,
\* after two transforms were asked
ReadsAreLazyWitness ==
    /\ ret.op = "getlevel" /\ ~ret.raised /\ vfield.mode = "resource"
    /\ Len(vfield.spgpOpList) = 2
    /\ ret.args = << <<>>, <<-1>> >>
    /\ ret.reads = << [fid |-> "a", getdata |-> TRUE] >>
    /\ StoredLevels(1) = <<30>>

\* the stored field id after the operations ops were done on it, one after the
\* other: [fields, heap]
RECURSIVE Transformed(_, _, _, _)
Transformed(id, ops, flds, hp) ==
    IF ops = <<>> THEN [fields |-> flds, heap |-> hp]
    ELSE LET r == IF Head(ops).op = "sp2gp" THEN sp2gp_at(id, flds, hp, FALSE)
                  ELSE gp2sp_at(id, Head(ops).spectral_geometry, flds, hp, FALSE)
         IN  Transformed(id, Tail(ops), r.fields, r.heap)

\* C15: on a resource-backed D3VirtualField each sp2gp() and gp2sp(sg) is
\* recorded, with its argument, after those called before, and nothing else
\* changes the record; a getlevel that returns gives the field of the level as
\* the resource stores it, after the recorded operations were done on it in
\* their order; getlevel with both level and k, or with neither, fails and
\* reads nothing.
ReplayInOrder ==
    [][vfield.mode = "resource" =>
        /\ ret'.op = "sp2gp" =>
              vfield'.spgpOpList = Append(vfield.spgpOpList,
                                          [op |-> "sp2gp", spectral_geometry |-> "None"])
        /\ ret'.op = "gp2sp" =>
              vfield'.spgpOpList = Append(vfield.spgpOpList,
                                          [op |-> "gp2sp",
                                           spectral_geometry |-> vfield'.spectral_geometry])
        /\ ret'.op \notin {"sp2gp", "gp2sp"} => vfield'.spgpOpList = vfield.spgpOpList
        /\ (ret'.op = "getlevel" /\ ~ret'.raised) =>
              \E id \in FieldIds :
                  /\ StoredLevels(id) = <<RequestedLevel(ret', vfield)>>
                  /\ \E after \in {Transformed(id, vfield.spgpOpList, fields, heap)} :
                        /\ [ret'.out[1] EXCEPT !.data = NoData]
                              = [after.fields[id] EXCEPT !.data = NoData]
                        /\ getdata(ret'.out[1]).shape = getdata(after.fields[id]).shape
                        /\ Flat(getdata(ret'.out[1]), heap')
                              = Flat(getdata(after.fields[id]), after.heap)
        /\ (ret'.op = "getlevel" /\ (ret'.args[1] = <<>>) = (ret'.args[2] = <<>>)) =>
              (ret'.raised /\ ret'.reads = <<>>)]_vars

\* the level 10 was read after gp2sp(sg1) then sp2gp() were asked of the
\* virtual field
ReplayInOrderWitness ==
    /\ ret.op = "getlevel" /\ ~ret.raised /\ vfield.mode = "resource"
    /\ vfield.spgpOpList = << [op |-> "gp2sp", spectral_geometry |-> "sg1"],
                              [op |-> "sp2gp", spectral_geometry |-> "None"] >>
    /\ ret.args = << <<10>>, <<>> >>
    /\ ret.out[1].spectral_geometry = "None"

---------------------------------------------------------------------------
(* Claims on the components of a vector field *)

\* the components of the vector
Components == {vector.components[n] : n \in 1..Len(vector.components)}

\* C16: in every state of a vector field, built by make_vector_field or by
\* the field builder and then changed by attach_components, setdata, sp2gp,
\* gp2sp, map_factorize and arithmetic, all its components share geometry
\* dimensions, spectral geometry, structure and validity
ComponentsAgree ==
    vector # NoVector =>
        \A a, b \in Components :
            /\ fields[a].geometry.dimensions = fields[b].geometry.dimensions
            /\ fields[a].spectral_geometry = fields[b].spectral_geometry
            /\ fields[a].structure = fields[b].structure
            /\ fields[a].validity = fields[b].validity

---------------------------------------------------------------------------
(* Claims on extract_zoom *)

\* the zoom of the last call
ZoomBox == [lonmin |-> ret.args[1][1], lonmax |-> ret.args[1][2],
            latmin |-> ret.args[2][1], latmax |-> ret.args[2][2]]

\* the last call is an extract_zoom, without extra_10th, on a gridpoint field
\* and its zoom goes from the first to the last gridpoint of the source
FullDomainZoom ==
    /\ ret.op = "extract_zoom" /\ ret.args[3] = <<0>> /\ ~spectral(fields[1])
    /\ ZoomBox.lonmin = fields[1].geometry.input_lon
    /\ ZoomBox.lonmax = fields[1].geometry.input_lon + (dimX(fields[1].geometry) - 1) * XRes
    /\ ZoomBox.latmin = fields[1].geometry.input_lat
    /\ ZoomBox.latmax = fields[1].geometry.input_lat + (dimY(fields[1].geometry) - 1) * YRes

\* the field returned has the dimensions and the 4D data of the source
ZoomSameAsSource ==
    /\ ~ret.raised
    /\ fields[3].geometry.dimensions = fields[1].geometry.dimensions
    /\ getdata(fields[3]).shape = getdata(fields[1]).shape
    /\ Flat(getdata(fields[3]), heap) = Flat(getdata(fields[1]), heap)

PointInZoom ==
    \E i \in 0..(dimX(fields[1].geometry) - 1), j \in 0..(dimY(fields[1].geometry) - 1) :
        /\ \E m \in -2..2 :
              /\ ZoomBox.lonmin <= fields[1].geometry.input_lon + i * XRes + m * Period
              /\ fields[1].geometry.input_lon + i * XRes + m * Period <= ZoomBox.lonmax
        /\ ZoomBox.latmin <= fields[1].geometry.input_lat + j * YRes
        /\ fields[1].geometry.input_lat + j * YRes <= ZoomBox.latmax

\* C18: extract_zoom fails with an assertion error whenever no gridpoint of
\* the source lies in the zoom, and never returns a field with a zero or
\* negative horizontal dimension
ZoomEmptyFails ==
    (ret.op = "extract_zoom" /\ fields[1].geometry.name \in {"regular_lonlat", "reduced_gauss"}) =>
        /\ (ret.args[3] = <<0>> /\ ~PointInZoom) => ret.error = "AssertionError"
        /\ ~ret.raised => (dimX(fields[3].geometry) > 0 /\ dimY(fields[3].geometry) > 0)

\* C19: on a regular_lonlat field extract_zoom terminates and calls itself
\* once at most
ZoomRecursesOnce ==
    (ret.op = "extract_zoom" /\ fields[1].geometry.name = "regular_lonlat") =>
        (ret.calls <= 1 /\ ret.error # "RecursionError")

---------------------------------------------------------------------------
(* Claims on getvalue_ll *)

\* the last call is a getvalue_ll whose arguments pass every test and whose
\* interpolation is not one of the three that are known
UnknownInterpolation ==
    /\ ret.op = "getvalue_ll"
    /\ ret.args[5][1] \notin {"nearest", "linear", "cubic"}
    /\ getvalue_ll_indexes(fields[1], ret.args[1], ret.args[2], ret.args[3], ret.args[4]).error = ""

\* C20: getvalue_ll with an interpolation other than 'nearest', 'linear' and
\* 'cubic' fails with NotImplementedError, which is neither the error of the
\* domain (epygramError) nor a generic error of the interpreter
UnknownInterpolationNotImplemented ==
    UnknownInterpolation => ret.error = "NotImplementedError"


\* the last call is a getvalue_ll that returned the interpolated values of
\* several points
InterpolatedSeveral ==
    /\ ret.op = "getvalue_ll"
    /\ ret.error = ""
    /\ ret.args[5][1] \in {"linear", "cubic"}
    /\ Len(ret.args[1]) > 1

\* C21: with 'linear' or 'cubic' and several points, the n-th value is fitted
\* on the neighbourhood of point n, on the values at the level index k[n] and
\* the time index t[n] of that point, and evaluated at (lon[n], lat[n])
InterpolationPerPoint ==
    InterpolatedSeveral =>
        LET self == fields[1]
            lon == ret.args[1]
            lat == ret.args[2]
            w == IF ret.args[5][1] = "linear" THEN 2 ELSE 4
            ix == getvalue_ll_indexes(self, lon, lat, ret.args[3], ret.args[4])
            data == [shape |-> getdata(self).shape, flat |-> Flat(getdata(self), heap)]
        IN  \A n \in 1..Len(lon) :
               LET sq == nearest_square(self.geometry, lon[n], lat[n], w).points
                   own == getvalue_ij(self, data, [p \in 1..(w * w) |-> sq[p][1]],
                                      [p \in 1..(w * w) |-> sq[p][2]],
                                      <<ix.my_k[n]>>, <<ix.my_t[n]>>, TRUE)
               IN  /\ ret.value[n].lon = lon[n]
                   /\ ret.value[n].lat = lat[n]
                   /\ ret.value[n].loc_lons = [p \in 1..(w * w) |->
                          self.geometry.input_lon + XRes * sq[p][1]]
                   /\ ret.value[n].loc_lats = [p \in 1..(w * w) |->
                          self.geometry.input_lat + YRes * sq[p][2]]
                   /\ ret.value[n].loc_values = own.value

\* the part of C21 on the level and time indexes alone
InterpolationOwnLevelTime ==
    InterpolatedSeveral =>
        LET self == fields[1]
            lon == ret.args[1]
            lat == ret.args[2]
            w == IF ret.args[5][1] = "linear" THEN 2 ELSE 4
            ix == getvalue_ll_indexes(self, lon, lat, ret.args[3], ret.args[4])
            data == [shape |-> getdata(self).shape, flat |-> Flat(getdata(self), heap)]
        IN  \A n \in 1..Len(lon) :
               LET sq == nearest_square(self.geometry, lon[n], lat[n], w).points
                   own == getvalue_ij(self, data, [p \in 1..(w * w) |-> sq[p][1]],
                                      [p \in 1..(w * w) |-> sq[p][2]],
                                      <<ix.my_k[n]>>, <<ix.my_t[n]>>, TRUE)
               IN  ret.value[n].loc_values = own.value


\* the last call is a getvalue_ll that asked a validity the field has not
UnmatchedValidity ==
    /\ ret.op = "getvalue_ll"
    /\ \E n \in 1..Len(ret.args[4]) :
          \A t \in 1..Len(fields[1].validity) : fields[1].validity[t] # ret.args[4][n]

\* C29: getvalue_ll returns no value for a validity asked that equals none of
\* the validities of the field: the call fails when one validity asked is
\* unmatched, also when others asked in the same call are matched
UnmatchedValidityFails ==
    UnmatchedValidity => ret.error # ""

\* the same when no validity asked is matched
NoMatchedValidityFails ==
    (/\ UnmatchedValidity
     /\ \A n \in 1..Len(ret.args[4]) :
           \A t \in 1..Len(fields[1].validity) : fields[1].validity[t] # ret.args[4][n])
        => ret.error # ""

---------------------------------------------------------------------------
(* Claims on the operations along the time axis *)

\* C22: decumulate(center=False) on a field of several validities leaves the
\* values at t = 0 as they are and puts original[t] - original[t-1] at each
\* t >= 1; on a field of one validity it changes nothing
DecumulateDifferences ==
    [][(ret'.op = "decumulate" /\ ret'.args = << <<0>> >>) =>
          LET T == Len(fields[1].validity)
              old == Flat(getdata(fields[1]), heap)
              new == Flat(getdata(fields'[1]), heap')
              n == Len(old) \div T
          IN  /\ ~ret'.raised
              /\ fields'[1].validity = fields[1].validity
              /\ getdata(fields'[1]).shape = getdata(fields[1]).shape
              /\ Len(new) = Len(old)
              /\ \A c \in 1..Len(old) :
                    new[c] = IF c <= n THEN old[c] ELSE old[c] - old[c - n]
              /\ T = 1 => (fields' = fields /\ heap' = heap)]_vars

\* a field of three validities after decumulate(center=False): the values
\* cumulated 6, 24, 54 at the first place are now 6, 18, 30
DecumulateDifferencesWitness ==
    /\ ret.op = "decumulate"
    /\ ret.args = << <<0>> >>
    /\ Len(fields[1].validity) = 3
    /\ LET new == Flat(getdata(fields[1]), heap)
           n == Len(new) \div 3
       IN  n = 1 /\ new = <<6, 18, 30>>


\* C23: for a field that holds data, f.setdata(f.getdata(d4=True)) succeeds
\* and leaves the data (the array and its values), the validity, the geometry
\* and the spectral geometry as they were
SetGetDataRoundTrip ==
    [][(ret'.op = "setdata(getdata)") =>
          /\ ~ret'.raised
          /\ fields'[1].validity = fields[1].validity
          /\ fields'[1].geometry = fields[1].geometry
          /\ fields'[1].spectral_geometry = fields[1].spectral_geometry
          /\ getdata(fields'[1]) = getdata(fields[1])
          /\ Flat(getdata(fields'[1]), heap') = Flat(getdata(fields[1]), heap)]_vars

\* the round trip on a spectral field of several validities whose data was
\* replaced in place since it was read
SetGetDataRoundTripWitness ==
    /\ ret.op = "setdata(getdata)"
    /\ ~ret.raised
    /\ spectral(fields[1])
    /\ Len(fields[1].validity) > 1
    /\ edits > 0


\* the time indices documented for a window of time_smooth around t, clipped
\* to [0, T): [lo, hi)
DocumentedWindow(t, T, length, window) ==
    LET lo == IF window = "center" THEN t - (length \div 2)
              ELSE IF window = "left" THEN t - length ELSE t
        hi == IF window = "center" THEN t + (length \div 2)
              ELSE IF window = "left" THEN t ELSE t + (length \div 2)
    IN  [lo |-> IF lo < 0 THEN 0 ELSE lo, hi |-> IF hi > T THEN T ELSE hi]

\* the step is a time_smooth that put at every t the mean of the values
\* before the step over the documented window
SmoothedAsDocumented ==
    LET T == Len(fields[1].validity)
        old == Flat(getdata(fields[1]), heap)
        new == Flat(getdata(fields'[1]), heap')
        n == Len(old) \div T
        length == ret'.args[1][1]
        window == ret'.args[2][1]
    IN  /\ Len(new) = Len(old)
        /\ \A c \in 1..Len(old) :
              LET w == DocumentedWindow((c - 1) \div n, T, length, window)
              IN  new[c] = time_mean(old, n, w.lo, w.hi, ((c - 1) % n) + 1)

\* C27: time_smooth(length, window) puts at every t the mean of the original
\* data over the time indices documented for the window, clipped to
\* [0, len(validity)): [t-length/2, t+length/2) for 'center', [t-length, t)
\* for 'left', [t, t+length/2) for 'right'
TimeSmoothDocumented ==
    [][(ret'.op = "time_smooth" /\ ret'.error = "") => SmoothedAsDocumented]_vars

\* the same for the windows 'center' and 'left' alone
TimeSmoothCenterLeft ==
    [][(ret'.op = "time_smooth" /\ ret'.error = "" /\ ret'.args[2][1] # "right")
          => SmoothedAsDocumented]_vars


---------------------------------------------------------------------------
(* Claims on extract_subdomain *)

\* the direction whose sector of 45 degrees, centred on its bearing, holds an
\* azimuth given in halves of a degree; a bound belongs to the sector below it
SectorDirection(az) ==
    IF -45 < az /\ az <= 45 THEN "N"
    ELSE IF 45 < az /\ az <= 135 THEN "NE"
    ELSE IF 135 < az /\ az <= 225 THEN "E"
    ELSE IF 225 < az /\ az <= 315 THEN "SE"
    ELSE IF -135 < az /\ az <= -45 THEN "NW"
    ELSE IF -225 < az /\ az <= -135 THEN "W"
    ELSE IF -315 < az /\ az <= -225 THEN "SW"
    ELSE "S"

\* the last call is an extract_subdomain that made the comment of one point
\* with 'nearest'
NearestComment ==
    /\ ret.op = "extract_subdomain"
    /\ ret.error = ""
    /\ ret.args[3] = <<"nearest">>
    /\ Len(get_lonlat_grid(fields[3].geometry).lons) = 1

\* C24: in the comment of extract_subdomain for one point and 'nearest', every
\* azimuth in [-180, 180] gets one of the 8 directions, the one whose sector
\* of 45 degrees centred on its bearing holds it (bounds at +/-22.5, +/-67.5,
\* +/-112.5, +/-157.5)
CompassSectors ==
    NearestComment => ret.value = <<SectorDirection(ret.args[4][1])>>

\* the part of C24 that every azimuth gets one of the 8 directions
CompassTotal ==
    NearestComment => ret.value[1] \in {"N", "NE", "E", "SE", "S", "SW", "W", "NW"}

\* the levels of the vertical grid that have a physical meaning
InRange(level, grid) == level >= 1 /\ level <= len_gridlevels(grid) - 1

\* the last call is an extract_subdomain with exclude_extralevels=True of a
\* source on levels of type 118, for a target that lists no levels
ExcludedExtralevels ==
    /\ ret.op = "extract_subdomain"
    /\ ret.error = ""
    /\ fields[1].geometry.vcoordinate.typeoffirstfixedsurface = 118
    /\ ret.args[1] = <<>>
    /\ ret.args[2] = <<1>>

\* C26: extract_subdomain with exclude_extralevels=True on a source of
\* vertical coordinate 118, for a target that lists no levels, returns a
\* field with no level < 1 and no level > len(gridlevels) - 1, and with every
\* level of the source that is in range
NoExtralevels ==
    ExcludedExtralevels =>
        LET mine == fields[1].geometry.vcoordinate
            levels == fields[3].geometry.vcoordinate.levels
        IN  /\ \A n \in 1..Len(levels) : InRange(levels[n], mine.grid)
            /\ \A m \in 1..Len(mine.levels) :
                  InRange(mine.levels[m], mine.grid) =>
                      \E n \in 1..Len(levels) : levels[n] = mine.levels[m]

\* the part of C26 that every level of the source that is in range is kept
InRangeLevelsKept ==
    ExcludedExtralevels =>
        LET mine == fields[1].geometry.vcoordinate
            levels == fields[3].geometry.vcoordinate.levels
        IN  \A m \in 1..Len(mine.levels) :
               InRange(mine.levels[m], mine.grid) =>
                   \E n \in 1..Len(levels) : levels[n] = mine.levels[m]


---------------------------------------------------------------------------
(* Claims on compute_xy_spderivatives *)

\* the last call is a compute_xy_spderivatives that returned
Derived ==
    ret.op = "compute_xy_spderivatives" /\ ~ret.raised

\* C25: compute_xy_spderivatives on a spectral field returns two gridpoint
\* fields whose fids differ from each other and from the fid of the source,
\* and the source stays spectral
DerivativesDistinguished ==
    Derived =>
        /\ Len(ret.out) = 2
        /\ \A n \in 1..2 : ret.out[n].spectral_geometry = "None"
        /\ ret.out[1].fid # ret.out[2].fid
        /\ \A n \in 1..2 : ret.out[n].fid # fields[1].fid
        /\ spectral(fields[1])

\* C25 without the difference between the two fids, and with the data of the
\* source as it was before the call
DerivativesGridpoint ==
    [][(ret'.op = "compute_xy_spderivatives" /\ ~ret'.raised) =>
          /\ Len(ret'.out) = 2
          /\ \A n \in 1..2 : ret'.out[n].spectral_geometry = "None"
          /\ \A n \in 1..2 : ret'.out[n].fid # fields[1].fid
          /\ spectral(fields'[1])
          /\ FieldUntouched]_vars


---------------------------------------------------------------------------
(* Claims on the spectral geometry of the levels of a virtual field *)

\* the last call is a getlevel that a resource-backed virtual field answered
LevelGiven ==
    ret.op = "getlevel" /\ ~ret.raised /\ vfield.mode = "resource"

\* C28: on a resource-backed D3VirtualField, after any sequence of sp2gp() and
\* gp2sp(sg), the field that getlevel returns has the spectral geometry that
\* the virtual field reports: both None, or both the same
LevelSpectralAsVirtual ==
    LevelGiven => ret.out[1].spectral_geometry = vfield.spectral_geometry

\* the same when every gp2sp was asked of a virtual field that was gridpoint
LevelSpectralAsVirtualGridpoint ==
    (/\ LevelGiven
     /\ \A n \in 1..Len(vfield.spgpOpList) :
           vfield.spgpOpList[n].op = "gp2sp" =>
               /\ n > 1 => vfield.spgpOpList[n - 1].op = "sp2gp"
               /\ n = 1 => \A id \in Constituents(fields) : ~spectral(fields[id]))
        => ret.out[1].spectral_geometry = vfield.spectral_geometry


---------------------------------------------------------------------------
(* D3Field.getlevel and the field the level is taken from *)

\* what the caller sees of a field: fid with the content of fid['generic'],
\* data, geometry, validity and spectral geometry
Seen(f, hp) ==
    [fid |-> f.fid, generic |-> f.generic, geometry |-> f.geometry, validity |-> f.validity,
     spectral_geometry |-> f.spectral_geometry, data |-> Flat(getdata(f), hp)]

\* a call of getlevel that got as far as taking a level, on a source whose fid
\* has the key 'generic'
LevelTakenOfGeneric ==
    /\ ret.op = "getlevel"
    /\ ~ret.raised
    /\ fields[1].generic.present
    /\ fields[3].generic = [present |-> TRUE, level |-> fields[3].geometry.vcoordinate.levels]

\* C30: getlevel leaves the source field as it was: after getlevel(level=..) or
\* getlevel(k=..) the fid of the source with the content of fid['generic'], its
\* data, geometry, validity and spectral geometry equal what they were before
\* the call, and the field returned has its own level in fid['generic']['level']
GetLevelLeavesSource ==
    [][(ret'.op = "getlevel") =>
          /\ Seen(fields'[1], heap') = Seen(fields[1], heap)
          /\ ~ret'.raised =>
                fields'[3].generic.level = fields'[3].geometry.vcoordinate.levels]_vars

\* what holds of the code: getlevel leaves the data, geometry, validity,
\* spectral geometry of the source as they were, and its fid but for
\* fid['generic']['level']; the field returned has its own level there
GetLevelLeavesSourceButLevel ==
    [][(ret'.op = "getlevel") =>
          /\ Seen([fields'[1] EXCEPT !.generic.level = <<>>], heap')
                = Seen([fields[1] EXCEPT !.generic.level = <<>>], heap)
          /\ ~fields[1].generic.present => fields'[1].generic = fields[1].generic
          /\ ~ret'.raised =>
                fields'[3].generic.level = fields'[3].geometry.vcoordinate.levels]_vars

=============================================================================
